---- MODULE Spec2Model ----
(***************************************************************************)
(* The buy-intent opportunity pipeline of airbitrage:                      *)
(*   harvester.ts  harvestBuyIntents  (HARVEST)                            *)
(*   sourcer       findSourcesForIntents  (SOURCE)                         *)
(*   runner.ts     runBuyerIntentPipeline  (BUDGET_CHECK, VERIFY)          *)
(* Money is in integer cents; search cost is in units of $0.001.           *)
(***************************************************************************)
EXTENDS Integers, Sequences, FiniteSets, TLC

VARIABLES
  mode,        \* which mocked web the run sees: "pipeline", "price", "conc"
  faults,      \* external-call failures injected so far
  posts,       \* raw search results handed out so far ("price" mode)
  now,         \* Date.now(), in hours
  \* ---- harvestBuyIntents (harvester.ts 93-188)
  hpc,         \* "idle" | "fetch" | "delay" | "returned"
  hIdx,        \* loop index i (1-based)
  allIntents,  \* allIntents
  seenUrls,    \* seenUrls
  hDiag,       \* diagnostics
  hCalls,      \* tavilyCallCount
  hWaited,     \* milliseconds spent in the delays between the queries
  harvest,     \* the HarvestResult returned (NoHarvest before the return)
  \* ---- findSourcesForIntents (unnamed/part_003 72-188)
  spc,         \* "idle" | "fetch" | "delay" | "returned"
  sIdx,        \* loop index i (1-based)
  topIntents,  \* topIntents
  matched,     \* matched
  sDiag,       \* diagnostics
  sCalls,      \* tavilyCallCount
  sWaited,     \* milliseconds spent in the delays between the searches
  lastListings,\* `listings` of the iteration last run (NoListings: not assigned)
  sourceResult,\* the SourceResult returned (NoSource before the return)
  \* ---- runBuyerIntentPipeline (runner.ts 51-273)
  pc,          \* "idle" | "harvest" | "source" | "loadBudget" | "checkBudget"
               \* | "claude" | "record" | "done"
  excludeKeys, \* excludeKeys, from userConfig.excludeSearched
  timer,       \* runTimeout: "unset" | "armed" | "fired" | "cleared"
  events,      \* what the progress sink was called with, in order
  freshIntents,
  searchedKeys,
  budget,      \* the answer of checkBudget (NoBudget before it)
  totalInputTokens,
  totalOutputTokens,
  response,    \* the ClaudeResponse (NoResponse before it)
  returned,    \* the settled promise: a BuyerIntentResult or a rejection
  raised,      \* the message of the exception the try block raised ("" if none)
  \* ---- the collaborators of @/lib
  budgetUsed,  \* the CostGovernor's persisted usage counter (tokens)
  budgetChecks,\* calls of checkBudget
  claudeCalls, \* the prompts callClaude was called with
  recorded,    \* the arguments recordUsage was called with
  \* ---- concurrent runs ("conc" mode)
  runs         \* per run: its position in runner.ts 188-223 and its locals

harvVars == <<hpc, hIdx, allIntents, seenUrls, hDiag, hCalls, hWaited, harvest>>
srcVars == <<spc, sIdx, topIntents, matched, sDiag, sCalls, sWaited, lastListings,
            sourceResult>>
runVars == <<pc, excludeKeys, timer, events, freshIntents, searchedKeys, budget,
             totalInputTokens, totalOutputTokens, response, returned, raised>>
libVars == <<budgetUsed, budgetChecks, claudeCalls, recorded>>
envVars == <<mode, faults, posts, now, runs>>

-----------------------------------------------------------------------------
(* Bounds of the model *)

\* raw postings the mocked search hands out over one harvest ("price" mode)
MaxPosts == 2
\* failing external calls per run
MaxFaults == 1
\* the hour at which the run executes
NowHours == 1000

-----------------------------------------------------------------------------
(* harvester.ts: configuration *)

\* number | null: a missing price
Null == -1

MIN_PRICE_CENTS == 2500
MAX_ID_DISTANCE == 100000000

\* the delay of the older sourcer
TAVILY_DELAY_MS_OLDER == 300

\* harvester.ts 78, unnamed/part_003 50: milliseconds between two calls
TAVILY_DELAY_MS == 250
\* extractBestPriceFromBody keeps 15 <= num < 50000 dollars, here in cents
BODY_MIN_CENTS == 1500
BODY_MAX_CENTS == 5000000

\* HARVEST_QUERIES[i].label
HARVEST_QUERIES ==
  << "hardwareswap", "mechmarket", "appleswap+photomarket",
     "AVexchange+gamesale", "Pen_Swap+comicswap+Knife_Swap",
     "watchexchange+vinylcollectors+homelabsales" >>

NoHarvest == [none |-> TRUE]
NoSource == [none |-> TRUE]
NoListings == [none |-> TRUE]
NoBudget == [none |-> TRUE]
NoResponse == [none |-> TRUE]
NoResult == [none |-> TRUE]

\* JS truthiness of a `number | null`: null and 0 are falsy
Truthy(n) == n # Null /\ n # 0

-----------------------------------------------------------------------------
(* harvester.ts: parsing one search result.                                *)
(* A result is [url, title, content, published]; the title and the body    *)
(* are kept as what the regular expressions of the code read off them:     *)
(*   title.hw        the [H]..[W] pattern matches, [H] names a payment     *)
(*                   method and [W] is not made of payment words only      *)
(*   title.wtb       the title carries [WTB]                               *)
(*   title.want      the [W] section with tags and "local..." stripped     *)
(*   title.stripped  the title with tags, amounts, payment words stripped  *)
(*   title.havePrice extractPrice([H] section)                             *)
(*   title.price     extractPrice(title)                                   *)
(*   content.length, content.amounts  the `$` amounts (cents) in the first *)
(*                   2000 characters of the body                           *)
(*   url.site, url.sub, url.id  host, /r/<sub>, /comments/<id> (base 36;   *)
(*                   0 when the URL has no such segment)                   *)
(***************************************************************************)

\* extractPrice of @/agents/scout/sources: the amount read off a text, or null
ExtractPrice(section) == section

RECURSIVE MaxOf(_)
MaxOf(s) == IF Len(s) = 1 THEN s[1]
            ELSE LET m == MaxOf(Tail(s)) IN IF s[1] >= m THEN s[1] ELSE m

\* extractBestPriceFromBody
ExtractBestPriceFromBody(content) ==
  LET prices == SelectSeq(content.amounts,
                          LAMBDA c : c >= BODY_MIN_CENTS /\ c < BODY_MAX_CENTS)
  IN IF prices = <<>> THEN Null ELSE MaxOf(prices)

\* parseHWFormat: {} for null, else the one ParsedHW
ParseHWFormat(title) ==
  IF ~title.hw THEN {}
  ELSE IF Len(title.want) < 3 THEN {}
  ELSE {[itemWanted |-> title.want, maxPrice |-> ExtractPrice(title.havePrice)]}

\* parseTavilyResult 262-273: the price, by priority [H] section, title, body
ParsedMaxPrice(hwResult, title, content) ==
  LET p1 == IF hwResult # {} /\ Truthy((CHOOSE h \in hwResult : TRUE).maxPrice)
            THEN (CHOOSE h \in hwResult : TRUE).maxPrice ELSE Null
      p2 == IF ~Truthy(p1) THEN ExtractPrice(title.price) ELSE p1
      p3 == IF ~Truthy(p2) /\ content.length > 0
            THEN ExtractBestPriceFromBody(content) ELSE p2
  IN p3

HasStatedPriceAboveMin(maxPrice) == maxPrice # Null /\ maxPrice >= MIN_PRICE_CENTS

\* parseTavilyResult 275
HasStatedPrice(maxPrice) == maxPrice # Null /\ maxPrice > 0

\* parseTavilyResult 277-288: hours since posted, 24 when unknown
PostAge(published, nowH) ==
  IF published = Null THEN 24
  ELSE IF nowH - published >= 0 THEN nowH - published ELSE 0

\* parseTavilyResult: {} for null, else the one BuyIntent
ParseTavilyResult(result, nowH) ==
  IF result.url.sub = "" THEN {}
  ELSE
    LET title == result.title
        hwResult == ParseHWFormat(title)
        isHWBuyPost == hwResult # {}
        isWTBPost == title.wtb
    IN IF ~isHWBuyPost /\ ~isWTBPost THEN {}
       ELSE
         LET itemWanted == IF isHWBuyPost
                           THEN (CHOOSE h \in hwResult : TRUE).itemWanted
                           ELSE title.stripped
         IN IF Len(itemWanted) < 3 THEN {}
            ELSE
              LET maxPrice == ParsedMaxPrice(hwResult, title, result.content)
              IN {[ itemWanted |-> itemWanted,
                    maxPrice |-> IF Truthy(maxPrice) THEN maxPrice ELSE 0,
                    hasStatedPrice |-> HasStatedPrice(maxPrice),
                    buyerUsername |-> "unknown",
                    buyerTradeCount |-> 0,
                    source |-> "r/" \o result.url.sub,
                    postUrl |-> result.url,
                    postAge |-> PostAge(result.published, nowH) ]}

-----------------------------------------------------------------------------
(* harvester.ts: the result loop of one query, the freshness filter, the sort *)

\* harvestBuyIntents 132-149
RECURSIVE HarvestResults(_, _, _, _, _)
HarvestResults(results, intents, seen, count, nowH) ==
  IF results = <<>>
  THEN [intents |-> intents, seen |-> seen, count |-> count]
  ELSE
    LET result == Head(results)
        rest == Tail(results)
    IN IF result.url.site # "reddit.com"
       THEN HarvestResults(rest, intents, seen, count, nowH)
       ELSE IF result.url \in seen
       THEN HarvestResults(rest, intents, seen, count, nowH)
       ELSE
         LET seen2 == seen \cup {result.url}
             parsed == ParseTavilyResult(result, nowH)
         IN IF parsed = {}
            THEN HarvestResults(rest, intents, seen2, count, nowH)
            ELSE
              LET intent == CHOOSE p \in parsed : TRUE
              IN IF intent.hasStatedPrice /\ intent.maxPrice < MIN_PRICE_CENTS
                 THEN HarvestResults(rest, intents, seen2, count, nowH)
                 ELSE HarvestResults(rest, Append(intents, intent), seen2,
                                     count + 1, nowH)

\* parseInt(s, 36) of a segment that starts with no base-36 digit ("_...")
NaN == -2

\* redditPostNumericId: url.id is 0 for a URL without /comments/<id>, NaN for
\* an <id> parseInt cannot read, else the number
RedditPostNumericId(url) == url.id

\* the filter with a strict comparison
FilterByRedditIdStrict(intents) ==
  IF intents = <<>> THEN intents
  ELSE
    LET ids == {RedditPostNumericId(intents[k].postUrl) : k \in 1..Len(intents)}
                 \ {NaN}
        maxId == CHOOSE m \in ids \cup {0} :
                   \A x \in ids \cup {0} : x <= m
    IN IF maxId = 0 THEN intents
       ELSE SelectSeq(intents, LAMBDA intent :
              /\ RedditPostNumericId(intent.postUrl) # 0
              /\ RedditPostNumericId(intent.postUrl) # NaN
              /\ maxId - RedditPostNumericId(intent.postUrl) < MAX_ID_DISTANCE)

\* filterByRedditId (a comparison with NaN is false)
FilterByRedditId(intents) ==
  IF intents = <<>> THEN intents
  ELSE
    LET ids == {RedditPostNumericId(intents[k].postUrl) : k \in 1..Len(intents)}
                 \ {NaN}
        maxId == CHOOSE m \in ids \cup {0} :
                   \A x \in ids \cup {0} : x <= m
    IN IF maxId = 0 THEN intents
       ELSE SelectSeq(intents, LAMBDA intent :
              /\ RedditPostNumericId(intent.postUrl) # 0
              /\ RedditPostNumericId(intent.postUrl) # NaN
              /\ maxId - RedditPostNumericId(intent.postUrl) <= MAX_ID_DISTANCE)

\* the comparator of harvestBuyIntents 181-185: TRUE when a sorts before b
SortsBefore(a, b) ==
  IF a.hasStatedPrice /\ ~b.hasStatedPrice THEN TRUE
  ELSE IF ~a.hasStatedPrice /\ b.hasStatedPrice THEN FALSE
  ELSE b.maxPrice - a.maxPrice < 0

\* Array.prototype.sort (stable) with that comparator
RECURSIVE InsertIntent(_, _)
InsertIntent(sorted, x) ==
  IF sorted = <<>> THEN <<x>>
  ELSE IF SortsBefore(x, Head(sorted)) THEN <<x>> \o sorted
  ELSE <<Head(sorted)>> \o InsertIntent(Tail(sorted), x)

RECURSIVE SortIntents(_)
SortIntents(s) ==
  IF s = <<>> THEN <<>>
  ELSE InsertIntent(SortIntents(SubSeq(s, 1, Len(s) - 1)), s[Len(s)])

-----------------------------------------------------------------------------
(* sourcer (unnamed/part_003 1-331): configuration *)

MIN_PROFIT_CENTS == 1500
MAX_INTENTS_TO_SEARCH == 50
\* searchForItem 234: the sanity range of a listing price
LISTING_MIN_CENTS == 500
LISTING_MAX_CENTS == 10000000
\* SHIPPING_ESTIMATES[source] || 1500
DEFAULT_SHIPPING == 1500

SHIPPING_ESTIMATES ==
  [s \in {"r/hardwareswap", "r/mechmarket", "r/photomarket", "r/watchexchange",
          "r/appleswap", "r/AVexchange", "r/gamesale", "r/homelabsales",
          "r/Knife_Swap", "r/Pen_Swap", "r/GunAccessoriesForSale",
          "r/comicswap", "r/funkoswap", "r/vinylcollectors"} |->
     CASE s = "r/hardwareswap" -> 1500
       [] s = "r/mechmarket" -> 1000
       [] s = "r/photomarket" -> 1500
       [] s = "r/watchexchange" -> 1200
       [] s = "r/appleswap" -> 1500
       [] s = "r/AVexchange" -> 1500
       [] s = "r/gamesale" -> 800
       [] s = "r/homelabsales" -> 2000
       [] s = "r/Knife_Swap" -> 800
       [] s = "r/Pen_Swap" -> 600
       [] s = "r/GunAccessoriesForSale" -> 1200
       [] s = "r/comicswap" -> 600
       [] s = "r/funkoswap" -> 800
       [] s = "r/vinylcollectors" -> 800]

\* Math.round(n / d) for n >= 0, d > 0 (halves round up)
RoundDiv(n, d) == (2 * n + d) \div (2 * d)

-----------------------------------------------------------------------------
(* sourcer: pure functions.  A search result is [url, title, price] with   *)
(* url = [host, listing]: the host name and whether isListingUrl accepts   *)
(* the URL; price = extractPrice(title + " " + content).                   *)

\* detectMarketplace
DetectMarketplace(url) ==
  CASE url.host = "ebay.com" -> "eBay"
    [] url.host = "amazon.com" -> "Amazon"
    [] url.host = "mercari.com" -> "Mercari"
    [] url.host = "swappa.com" -> "Swappa"
    [] url.host = "walmart.com" -> "Walmart"
    [] url.host = "bestbuy.com" -> "Best Buy"
    [] url.host = "target.com" -> "Target"
    [] url.host = "newegg.com" -> "Newegg"
    [] url.host = "bhphotovideo.com" -> "B&H"
    [] url.host = "adorama.com" -> "Adorama"
    [] url.host = "reverb.com" -> "Reverb"
    [] url.host = "discogs.com" -> "Discogs"
    [] url.host = "stockx.com" -> "StockX"
    [] OTHER -> "Other"

\* isListingUrl of @/agents/scout/sources
IsListingUrl(url) == url.listing

\* the key of deduplicateListings
ListingKey(listing) == <<listing.marketplace, RoundDiv(listing.price, 100)>>

\* a search that keeps every listing
DeduplicateListingsKeepAll(listings) == listings

\* deduplicateListings: the first listing of every key, in order
RECURSIVE DeduplicateListings(_)
DeduplicateListings(listings) ==
  IF listings = <<>> THEN <<>>
  ELSE LET n == Len(listings)
           front == DeduplicateListings(SubSeq(listings, 1, n - 1))
       IN IF \E k \in 1..Len(front) : ListingKey(front[k]) = ListingKey(listings[n])
          THEN front
          ELSE Append(front, listings[n])

\* searchForItem 222-242: one result to zero or one listing
ResultListing(result) ==
  LET marketplace == DetectMarketplace(result.url)
      price == ExtractPrice(result.price)
  IN IF ~IsListingUrl(result.url) /\ marketplace = "Other" THEN <<>>
     ELSE IF ~Truthy(price) \/ price <= 0 THEN <<>>
     ELSE IF price < LISTING_MIN_CENTS \/ price > LISTING_MAX_CENTS THEN <<>>
     ELSE << [title |-> result.title, price |-> price,
              url |-> result.url, marketplace |-> marketplace] >>

RECURSIVE ResultListings(_)
ResultListings(results) ==
  IF results = <<>> THEN <<>>
  ELSE ResultListing(Head(results)) \o ResultListings(Tail(results))

\* searchForItem 215-244, on a successful response
SearchForItem(results) == DeduplicateListings(ResultListings(results))

\* fees that ignore the venue's shipping estimate
CalculateFeesFlatShipping(sellPrice, source) ==
  [paypalFee |-> RoundDiv(sellPrice * 349, 10000) + 49,
   shippingCost |-> DEFAULT_SHIPPING,
   total |-> RoundDiv(sellPrice * 349, 10000) + 49 + DEFAULT_SHIPPING]

\* calculateFees
CalculateFees(sellPrice, source) ==
  LET paypalFee == RoundDiv(sellPrice * 349, 10000) + 49
      shippingCost == IF source \in DOMAIN SHIPPING_ESTIMATES
                      THEN SHIPPING_ESTIMATES[source] ELSE DEFAULT_SHIPPING
  IN [paypalFee |-> paypalFee, shippingCost |-> shippingCost,
      total |-> paypalFee + shippingCost]

\* the score without the final clamp
CalculateConfidenceUnclamped(intent, listing, profit) ==
  LET sellPrice == IF intent.maxPrice # 0 THEN intent.maxPrice
                   ELSE profit + listing.price
      Above(p) == sellPrice > 0 /\ profit * 100 > p * sellPrice
  IN 45 + (IF Above(30) THEN 15 ELSE IF Above(20) THEN 10
           ELSE IF Above(10) THEN 5 ELSE 0)
        + (IF intent.buyerTradeCount >= 50 THEN 10
           ELSE IF intent.buyerTradeCount >= 20 THEN 7
           ELSE IF intent.buyerTradeCount >= 5 THEN 3 ELSE 0)
        + (IF intent.postAge <= 4 THEN 10
           ELSE IF intent.postAge <= 12 THEN 5
           ELSE IF intent.postAge <= 24 THEN 2 ELSE 0)
        + (IF listing.marketplace # "Other" THEN 5 ELSE 0)
        + (IF listing.marketplace \in {"eBay", "Amazon"} THEN 5 ELSE 0)
        + (IF intent.hasStatedPrice THEN 10 ELSE 0)

\* calculateConfidence
CalculateConfidence(intent, listing, profit) ==
  LET sellPrice == IF intent.maxPrice # 0 THEN intent.maxPrice
                   ELSE profit + listing.price
      \* profitPercent > p  <=>  profit * 100 > p * sellPrice (sellPrice > 0)
      Above(p) == sellPrice > 0 /\ profit * 100 > p * sellPrice
      margin == IF Above(30) THEN 15 ELSE IF Above(20) THEN 10
                ELSE IF Above(10) THEN 5 ELSE 0
      trades == IF intent.buyerTradeCount >= 50 THEN 10
                ELSE IF intent.buyerTradeCount >= 20 THEN 7
                ELSE IF intent.buyerTradeCount >= 5 THEN 3 ELSE 0
      fresh == IF intent.postAge <= 4 THEN 10
               ELSE IF intent.postAge <= 12 THEN 5
               ELSE IF intent.postAge <= 24 THEN 2 ELSE 0
      known == IF listing.marketplace # "Other" THEN 5 ELSE 0
      top == IF listing.marketplace \in {"eBay", "Amazon"} THEN 5 ELSE 0
      stated == IF intent.hasStatedPrice THEN 10 ELSE 0
      confidence == 45 + margin + trades + fresh + known + top + stated
  IN IF confidence > 95 THEN 95 ELSE IF confidence < 15 THEN 15 ELSE confidence

\* prices.sort((a, b) => a - b)
RECURSIVE SortAscending(_)
SortAscending(s) ==
  IF s = <<>> THEN <<>>
  ELSE LET m == CHOOSE k \in 1..Len(s) : \A j \in 1..Len(s) : s[k] <= s[j]
       IN <<s[m]>> \o SortAscending(SubSeq(s, 1, m - 1) \o SubSeq(s, m + 1, Len(s)))

\* Strategy A without the profit floor
PricedMatchesAnyProfit(intent, listings) ==
  LET cheaper == SelectSeq(listings, LAMBDA l : l.price < intent.maxPrice)
      fees == CalculateFees(intent.maxPrice, intent.source)
  IN [k \in 1..Len(cheaper) |->
        [buyIntent |-> intent, sourceListing |-> cheaper[k],
         estimatedProfit |-> intent.maxPrice - cheaper[k].price - fees.total,
         fees |-> fees,
         confidence |-> CalculateConfidence(intent, cheaper[k],
                          intent.maxPrice - cheaper[k].price - fees.total),
         estimatedMarketPrice |-> Null]]

\* findSourcesForIntents 99-114: Strategy A, the matches of a priced intent
RECURSIVE PricedMatches(_, _)
PricedMatches(intent, listings) ==
  IF listings = <<>> THEN <<>>
  ELSE
    LET listing == Head(listings)
        fees == CalculateFees(intent.maxPrice, intent.source)
        profit == intent.maxPrice - listing.price - fees.total
        rest == PricedMatches(intent, Tail(listings))
    IN IF listing.price >= intent.maxPrice THEN rest
       ELSE IF profit >= MIN_PROFIT_CENTS
       THEN << [buyIntent |-> intent, sourceListing |-> listing,
                estimatedProfit |-> profit, fees |-> fees,
                confidence |-> CalculateConfidence(intent, listing, profit),
                estimatedMarketPrice |-> Null] >> \o rest
       ELSE rest

\* findSourcesForIntents 139-141: the median of the found prices
MarketPrice(listings) ==
  LET prices == SortAscending([k \in 1..Len(listings) |-> listings[k].price])
  IN prices[(Len(prices) \div 2) + 1]

\* findSourcesForIntents 143-145
CheapListings(listings, marketPrice) ==
  SelectSeq(listings, LAMBDA l : l.price <= RoundDiv(marketPrice * 75, 100))

\* findSourcesForIntents 147-162: Strategy B, the matches of a priceless intent
RECURSIVE MarketMatches(_, _, _)
MarketMatches(intent, cheapListings, marketPrice) ==
  IF cheapListings = <<>> THEN <<>>
  ELSE
    LET listing == Head(cheapListings)
        fees == CalculateFees(marketPrice, intent.source)
        profit == marketPrice - listing.price - fees.total
        rest == MarketMatches(intent, Tail(cheapListings), marketPrice)
    IN IF profit >= MIN_PROFIT_CENTS
       THEN << [buyIntent |-> [intent EXCEPT !.maxPrice = marketPrice],
                sourceListing |-> listing,
                estimatedProfit |-> profit, fees |-> fees,
                confidence |-> CalculateConfidence(intent, listing, profit) - 10,
                estimatedMarketPrice |-> marketPrice] >> \o rest
       ELSE rest

\* Strategy B reporting a lone listing as a success
MatchIntentLoneSuccess(intent, listings) ==
  LET n == Len(listings) IN
  IF intent.hasStatedPrice
  THEN [matches |-> PricedMatches(intent, listings),
        diag |-> [source |-> <<"priced", intent.itemWanted>>,
                  status |-> IF n > 0 THEN "success" ELSE "empty",
                  itemCount |-> n, error |-> ""]]
  ELSE IF n < 2
  THEN [matches |-> <<>>,
        diag |-> [source |-> <<"market", intent.itemWanted>>,
                  status |-> IF n > 0 THEN "success" ELSE "empty",
                  itemCount |-> n, error |-> ""]]
  ELSE LET marketPrice == MarketPrice(listings)
           cheap == CheapListings(listings, marketPrice)
       IN [matches |-> MarketMatches(intent, cheap, marketPrice),
           diag |-> [source |-> <<"market", intent.itemWanted>>,
                     status |-> IF Len(cheap) > 0 THEN "success" ELSE "empty",
                     itemCount |-> n, error |-> ""]]

\* findSourcesForIntents 93-170: what one successful search adds, as
\* [matches, diag]
MatchIntent(intent, listings) ==
  LET n == Len(listings) IN
  IF intent.hasStatedPrice
  THEN [matches |-> PricedMatches(intent, listings),
        diag |-> [source |-> <<"priced", intent.itemWanted>>,
                  status |-> IF n > 0 THEN "success" ELSE "empty",
                  itemCount |-> n, error |-> ""]]
  ELSE IF n < 2
  THEN [matches |-> <<>>,
        diag |-> [source |-> <<"market", intent.itemWanted>>,
                  status |-> "empty", itemCount |-> n, error |-> ""]]
  ELSE LET marketPrice == MarketPrice(listings)
           cheap == CheapListings(listings, marketPrice)
       IN [matches |-> MarketMatches(intent, cheap, marketPrice),
           diag |-> [source |-> <<"market", intent.itemWanted>>,
                     status |-> IF Len(cheap) > 0 THEN "success" ELSE "empty",
                     itemCount |-> n, error |-> ""]]

\* matched.sort((a, b) => b.estimatedProfit - a.estimatedProfit), stable
RECURSIVE InsertMatch(_, _)
InsertMatch(sorted, x) ==
  IF sorted = <<>> THEN <<x>>
  ELSE IF x.estimatedProfit > Head(sorted).estimatedProfit THEN <<x>> \o sorted
  ELSE <<Head(sorted)>> \o InsertMatch(Tail(sorted), x)

\* a matcher that returns the matches in the order it found them
SortMatchesUnsorted(s) == s

RECURSIVE SortMatches(_)
SortMatches(s) ==
  IF s = <<>> THEN <<>>
  ELSE InsertMatch(SortMatches(SubSeq(s, 1, Len(s) - 1)), s[Len(s)])

\* Array.prototype.slice(0, n)
Slice(s, n) == SubSeq(s, 1, IF Len(s) < n THEN Len(s) ELSE n)

-----------------------------------------------------------------------------
(* The mocked search service, harvest side *)

RedditUrl(sub, id) == [site |-> "reddit.com", sub |-> sub, id |-> id]

HWTitle(want, havePrice, price) ==
  [hw |-> TRUE, wtb |-> FALSE, want |-> want, stripped |-> want,
   havePrice |-> havePrice, price |-> price]

WTBTitle(stripped, price) ==
  [hw |-> FALSE, wtb |-> TRUE, want |-> "", stripped |-> stripped,
   havePrice |-> Null, price |-> price]

Contents ==
  { [length |-> 0, amounts |-> <<>>],
    [length |-> 40, amounts |-> <<1000>>],
    [length |-> 40, amounts |-> <<3000, 70000>>] }

\* "price" mode: one posting per query, every combination of price outcomes
PriceResults(i) ==
  { [url |-> RedditUrl("hardwareswap", i), title |-> HWTitle("gpu", hp, tp),
     content |-> c, published |-> Null] :
      hp \in {Null, 2000, 80000}, tp \in {Null, 60000}, c \in Contents }
  \cup
  { [url |-> RedditUrl("watchexchange", i), title |-> WTBTitle("watch", tp),
     content |-> c, published |-> Null] :
      tp \in {Null, 0, 2000}, c \in {c \in Contents : c.amounts # <<1000>>} }
  \cup
  { [url |-> RedditUrl("hardwareswap", i), title |-> HWTitle("ab", 80000, 80000),
     content |-> [length |-> 0, amounts |-> <<>>], published |-> Null],
    [url |-> RedditUrl("hardwareswap", i),
     title |-> [hw |-> FALSE, wtb |-> FALSE, want |-> "", stripped |-> "selling gpu",
                havePrice |-> Null, price |-> 80000],
     content |-> [length |-> 0, amounts |-> <<>>], published |-> Null],
    [url |-> [site |-> "other.com", sub |-> "", id |-> 0],
     title |-> WTBTitle("watch", 80000),
     content |-> [length |-> 0, amounts |-> <<>>], published |-> Null] }

Posting(sub, id, title) ==
  [url |-> RedditUrl(sub, id), title |-> title,
   content |-> [length |-> 0, amounts |-> <<>>], published |-> Null]

\* "pipeline" mode, query 1: a priced and a priceless [H]/[W] posting
BatchA ==
  << Posting("hardwareswap", 5001, HWTitle("RTX 3080", 80000, 80000)),
     Posting("hardwareswap", 5002, HWTitle("RTX 4090", Null, Null)) >>

KbItems ==
  << "kb01", "kb02", "kb03", "kb04", "kb05", "kb06", "kb07",
     "kb08", "kb09", "kb10", "kb11", "kb12", "kb13" >>

\* "cap" mode, query 2: thirteen priced postings
BatchB ==
  [k \in 1..Len(KbItems) |->
     Posting("mechmarket", 5100 + k,
             HWTitle(KbItems[k], 20000 - 100 * k, 20000 - 100 * k))]

\* "pipeline" mode, query 6: one [WTB] posting nobody sells cheaper
BatchC ==
  << Posting("watchexchange", 5201, WTBTitle("seiko watch", 30000)) >>

\* "fresh" mode: the identifier of the oldest posting
BaseId == 1000000000

\* "fresh" mode: postings of an early and of a late query, with identifiers at
\* and around the window distance, missing, and unreadable
FreshMenu(i) ==
  CASE i = 1 ->
         { <<>>,
           << Posting("hardwareswap", BaseId, HWTitle("RTX 3080", 80000, 80000)),
              Posting("hardwareswap", BaseId + 1, HWTitle("RTX 3090", 90000, 90000)) >>,
           << Posting("hardwareswap", 0, HWTitle("RTX 3080", 80000, 80000)),
              Posting("hardwareswap", NaN, HWTitle("RTX 3090", 90000, 90000)) >>,
           << Posting("hardwareswap", 0, HWTitle("RTX 3080", 80000, 80000)) >> }
    [] i = 4 ->
         { <<>>,
           << Posting("AVexchange", BaseId + MAX_ID_DISTANCE,
                      HWTitle("amp", 50000, 50000)) >>,
           << Posting("AVexchange", BaseId + MAX_ID_DISTANCE + 1,
                      HWTitle("amp", 50000, 50000)) >>,
           << Posting("AVexchange", NaN, HWTitle("amp", 50000, 50000)) >> }
    [] OTHER -> {<<>>}

\* "replay" mode, query 1: a priced posting published two hours before the
\* earlier run, and a priceless one without a date
ReplayBatch ==
  << [Posting("hardwareswap", 5001, HWTitle("RTX 3080", 80000, 80000))
        EXCEPT !.published = NowHours - 2],
     Posting("hardwareswap", 5002, HWTitle("RTX 4090", Null, Null)) >>

\* "replay" mode: the one answer query i gets, whenever the run executes
ReplayResults(i) == IF i = 1 THEN ReplayBatch ELSE <<>>

\* "replay" mode: Date.now() of a run, in hours: soon after the postings were
\* published, or more than a day later
ReplayTimes == {NowHours, NowHours + 30}

\* the result lists query i may be answered with
HarvestMenu(i) ==
  IF mode = "price"
  THEN {<<>>} \cup (IF posts < MaxPosts THEN {<<r>> : r \in PriceResults(i)} ELSE {})
  ELSE IF mode = "fresh" THEN FreshMenu(i)
  ELSE IF mode = "replay" THEN {ReplayResults(i)}
  ELSE IF mode = "pipeline"
  THEN CASE i = 1 -> {<<>>, BatchA}
         [] i = 6 -> {<<>>, BatchC}
         [] OTHER -> {<<>>}
  ELSE CASE i = 1 -> {BatchA}
         [] i = 2 -> {BatchB}
         [] OTHER -> {<<>>}

\* what the fetch of query i may come to: a rejection (timeout, network), a
\* non-success status, or a result list
HarvestResponses(i) ==
  { [kind |-> "ok", results |-> rs] : rs \in HarvestMenu(i) }
  \cup (IF faults < MaxFaults
        THEN { [kind |-> "reject", error |-> "The operation was aborted due to timeout"],
               [kind |-> "status", error |-> "Tavily returned 500"] }
        ELSE {})

-----------------------------------------------------------------------------
(* The mocked search service, source side: what `buy "<item>" price`      *)
(* returns                                                                 *)

Found(host, listing, price) ==
  [url |-> [host |-> host, listing |-> listing], title |-> host, price |-> price]

SearchWorld(item) ==
  CASE item = "RTX 3080" ->
         << Found("ebay.com", TRUE, 60000), Found("amazon.com", TRUE, 79000),
            Found("mercari.com", TRUE, 90000), Found("blog.example", FALSE, 10000) >>
    [] item = "RTX 4090" ->
         << Found("ebay.com", TRUE, 100000), Found("amazon.com", TRUE, 150000),
            Found("swappa.com", TRUE, 160000) >>
    [] item \in {KbItems[k] : k \in 1..Len(KbItems)} ->
         << Found("ebay.com", TRUE, 10000), Found("amazon.com", TRUE, 10500) >>
    [] item = "seiko watch" -> << Found("ebay.com", TRUE, 29000) >>
    [] OTHER -> <<>>

\* a BuyIntent handed to findSourcesForIntents
Intent(item, maxPrice, sub, trades, age, id) ==
  [itemWanted |-> item, maxPrice |-> maxPrice, hasStatedPrice |-> maxPrice > 0,
   buyerUsername |-> "unknown", buyerTradeCount |-> trades,
   source |-> "r/" \o sub, postUrl |-> RedditUrl(sub, id), postAge |-> age]

\* "match" mode: priced and priceless intents, of venues in and out of the
\* shipping table, of every reputation and freshness bucket
MatchIntents ==
  { Intent("gpu", 80000, "hardwareswap", 0, 24, 7001),
    Intent("keyboard", 80000, "mechmarket", 60, 2, 7002),
    Intent("lens", 80000, "elsewhere", 20, 1000, 7003),
    Intent("camera", 0, "photomarket", 0, 24, 7004),
    Intent("pen", 0, "Pen_Swap", 5, 10, 7005) }

\* "match" mode: intents per call of findSourcesForIntents
MaxIntents == 2

RECURSIVE IntentLists(_)
IntentLists(n) ==
  IF n = 0 THEN {<<>>}
  ELSE LET shorter == IntentLists(n - 1)
       IN shorter \cup
          { Append(l, i) : l \in {x \in shorter : Len(x) = n - 1},
                           i \in MatchIntents }

\* lists of distinct intents, as the harvester's URL dedup leaves them
MatchIntentLists ==
  { l \in IntentLists(MaxIntents) :
      Len(l) >= 1 /\ \A j, k \in 1..Len(l) : j # k => l[j] # l[k] }

\* "match" mode: what a search may return
MatchResults ==
  { <<>>,
    << Found("ebay.com", TRUE, 60000) >>,
    << Found("ebay.com", TRUE, 60000), Found("ebay.com", TRUE, 60049),
       Found("amazon.com", TRUE, 60000), Found("amazon.com", TRUE, 79000),
       Found("mercari.com", TRUE, 90000) >>,
    << Found("ebay.com", TRUE, 40000), Found("shop.example", TRUE, 30000),
       Found("blog.example", FALSE, 10000), Found("swappa.com", TRUE, 400),
       Found("stockx.com", TRUE, Null), Found("ebay.com", TRUE, 80000) >>,
    << Found("ebay.com", TRUE, 100000), Found("ebay.com", TRUE, 100040),
       Found("amazon.com", TRUE, 150000), Found("swappa.com", TRUE, 160000),
       Found("shop.example", TRUE, 100010) >>,
    << Found("blog.example", FALSE, 10000), Found("ebay.com", TRUE, 70000) >> }

\* what the search for an intent may come to
SourceResponses(intent) ==
  { [kind |-> "ok", results |-> rs] :
      rs \in IF mode = "match" THEN MatchResults
             ELSE {SearchWorld(intent.itemWanted)} }
  \cup (IF faults < MaxFaults
        THEN { [kind |-> "status", error |-> "Tavily returned 500"] }
        ELSE {})

\* userConfig.excludeSearched: nothing, one key, the keys of BatchA
ExcludeMenu ==
  { {},
    { <<"r/hardwareswap", "unknown", "rtx-3080">> },
    { <<"r/hardwareswap", "unknown", "rtx-3080">>,
      <<"r/hardwareswap", "unknown", "rtx-4090">> } }

-----------------------------------------------------------------------------
(* harvestBuyIntents: one loop iteration per action, split at its awaits *)

\* harvestBuyIntents 174-187, after the loop
HarvestReturn(intents, diagnostics, calls) ==
  [intents |-> SortIntents(FilterByRedditId(intents)),
   diagnostics |-> diagnostics,
   tavilyCallCount |-> calls]

\* harvestBuyIntents 99-166 (and 174-187 after the last query): the fetch of
\* query hIdx settles
HarvestFetch ==
  /\ hpc = "fetch"
  /\ \E resp \in HarvestResponses(hIdx) :
       LET label == HARVEST_QUERIES[hIdx]
           calls == IF resp.kind = "reject" THEN hCalls ELSE hCalls + 1
           got == IF resp.kind = "ok"
                  THEN HarvestResults(resp.results, allIntents, seenUrls, 0, now)
                  ELSE [intents |-> allIntents, seen |-> seenUrls, count |-> 0]
           diag == IF resp.kind = "ok"
                   THEN [source |-> label,
                         status |-> IF got.count > 0 THEN "success" ELSE "empty",
                         itemCount |-> got.count, error |-> ""]
                   ELSE [source |-> label, status |-> "error",
                         itemCount |-> 0, error |-> resp.error]
           diags == Append(hDiag, diag)
       IN /\ hCalls' = calls
          /\ hWaited' = hWaited
          /\ allIntents' = got.intents
          /\ seenUrls' = got.seen
          /\ hDiag' = diags
          /\ faults' = IF resp.kind = "ok" THEN faults ELSE faults + 1
          /\ posts' = IF resp.kind = "ok" THEN posts + Len(resp.results) ELSE posts
          /\ IF hIdx < Len(HARVEST_QUERIES)
             THEN /\ hpc' = "delay"
                  /\ harvest' = harvest
             ELSE /\ hpc' = "returned"
                  /\ harvest' = HarvestReturn(got.intents, diags, calls)
  /\ UNCHANGED <<hIdx, mode, now, runs, srcVars, runVars, libVars>>

\* harvestBuyIntents 168-171: the delay between two queries is over
HarvestDelay ==
  /\ hpc = "delay"
  /\ hWaited' = hWaited + TAVILY_DELAY_MS
  /\ hIdx' = hIdx + 1
  /\ hpc' = "fetch"
  /\ UNCHANGED <<allIntents, seenUrls, hDiag, hCalls, harvest, envVars,
                 srcVars, runVars, libVars>>

-----------------------------------------------------------------------------
(* runner.ts: configuration and helpers *)

\* Math.min(freshIntents.length, 14)
SEARCH_COUNT_CAP == 14
\* matches.slice(0, 20)
TOP_MATCHES == 20

\* itemWanted.slice(0, 60).toLowerCase().replace(/\s+/g, '-'), on the item
\* texts of the mocked web (the others are lower case, without blanks)
NormItem(item) ==
  CASE item = "RTX 3080" -> "rtx-3080"
    [] item = "rtx  3080" -> "rtx-3080"
    [] item = "RTX 4090" -> "rtx-4090"
    [] item = "seiko watch" -> "seiko-watch"
    [] OTHER -> item

\* a key made of the item text as posted
IntentKeyRaw(intent) ==
  <<intent.source, intent.buyerUsername, intent.itemWanted>>

\* intentKey
IntentKey(intent) ==
  <<intent.source, intent.buyerUsername, NormItem(intent.itemWanted)>>

\* a runner that ignores excludeSearched
FreshIntentsUnfiltered(intents, exclude) == intents

\* runner.ts 79-82
FreshIntents(intents, exclude) ==
  IF Cardinality(exclude) > 0
  THEN SelectSeq(intents, LAMBDA i : IntentKey(i) \notin exclude)
  ELSE intents

\* runner.ts 136
SearchCount(fresh) ==
  IF Len(fresh) < SEARCH_COUNT_CAP THEN Len(fresh) ELSE SEARCH_COUNT_CAP

\* runner.ts 150
SearchedKeys(fresh) ==
  LET top == Slice(fresh, SearchCount(fresh))
  IN [k \in 1..Len(top) |-> IntentKey(top[k])]

\* a progress event: its type, which emit of the code it is, and for the
\* per-intent messages of the sourcer the index shown
Ev(type, tag, i) == [type |-> type, tag |-> tag, i |-> i]

HarvestEntryEvent == Ev("scouting", "harvest_entry", 0)
HarvestCountEvent == Ev("scouting", "harvest_count", 0)
SourceEntryEvent == Ev("scouting", "source_entry", 0)
\* a sourcer whose messages carry no index
SearchEventUnnumbered(i) == Ev("scouting", "search", 0)

SearchEvent(i) == Ev("scouting", "search", i)
MatchCountEvent == Ev("scouting", "match_count", 0)
CallingClaudeEvent == Ev("calling_claude", "calling_claude", 0)
CompletedEvent == Ev("completed", "completed", 0)
TimeoutEvent == Ev("error", "timeout", 0)
ErrorEvent == Ev("error", "exception", 0)

SinkError == "progress sink failed"

\* a return path that leaves the timer armed
ClearTimeoutForgotten(t) == t

\* clearTimeout(runTimeout)
ClearTimeout(t) == IF t = "armed" THEN "cleared" ELSE t

\* estimateCost of @/lib/budget: the price of the tokens
EstimateCost(inputTokens, outputTokens) ==
  [input |-> inputTokens, output |-> outputTokens]

\* an estimatedCost: the token price plus 0.001 dollars per search call
Cost(tokenCost, searchCalls) == [tokenCost |-> tokenCost, searchCalls |-> searchCalls]

NoStats == [none |-> TRUE]

\* scoutStats
ScoutStats(found, searched, matches, searches, diagnostics) ==
  [intentsFound |-> found, intentsSearched |-> searched, matchesFound |-> matches,
   tavilySearches |-> searches, diagnostics |-> diagnostics]

\* a BuyerIntentResult; "" and <<>> stand for the absent optional fields
Result(success, opportunities, keys, tin, tout, toolCalls, cost, error, abort, stats) ==
  [rejected |-> FALSE, success |-> success, opportunities |-> opportunities,
   searchedKeys |-> keys, totalInputTokens |-> tin, totalOutputTokens |-> tout,
   totalToolCalls |-> toolCalls, estimatedCost |-> cost, error |-> error,
   abortReason |-> abort, scoutStats |-> stats]

\* the promise of the run rejects
Rejection(message) == [rejected |-> TRUE, error |-> message]

\* runner.ts 114-130
EmptyHarvestResult(h) ==
  Result(TRUE, <<>>, <<>>, 0, 0, 0, Cost(EstimateCost(0, 0), h.tavilyCallCount), "", "",
         ScoutStats(Len(h.intents), 0, 0, h.tavilyCallCount, h.diagnostics))

\* runner.ts 165-183
NoMatchResult(h, src, fresh) ==
  LET calls == h.tavilyCallCount + src.tavilyCallCount
  IN Result(TRUE, <<>>, SearchedKeys(fresh), 0, 0, 0, Cost(EstimateCost(0, 0), calls), "", "",
            ScoutStats(Len(h.intents), SearchCount(fresh), 0, calls,
                       h.diagnostics \o src.diagnostics))

\* an abort that names no reason
BudgetAbortWithoutReason(h, src) ==
  Result(FALSE, <<>>, <<>>, 0, 0, 0,
         Cost(EstimateCost(0, 0), h.tavilyCallCount + src.tavilyCallCount),
         "", "", NoStats)

\* runner.ts 192-201
BudgetAbortResult(h, src) ==
  Result(FALSE, <<>>, <<>>, 0, 0, 0,
         Cost(EstimateCost(0, 0), h.tavilyCallCount + src.tavilyCallCount),
         "", "Daily token budget exceeded", NoStats)

\* runner.ts 226-255
VerifiedResult(h, src, fresh, opportunities, tin, tout) ==
  LET calls == h.tavilyCallCount + src.tavilyCallCount
  IN Result(TRUE, opportunities, SearchedKeys(fresh), tin, tout, 1,
            Cost(EstimateCost(tin, tout), calls), "", "",
            ScoutStats(Len(h.intents), SearchCount(fresh), Len(src.matched), calls,
                       h.diagnostics \o src.diagnostics))

\* runner.ts 262-271
FailureResult(message, tin, tout) ==
  Result(FALSE, <<>>, <<>>, tin, tout, 0, Cost(EstimateCost(tin, tout), 0), message, "",
         NoStats)

\* buildVerificationPrompt 302-316: the summary of one match
MatchSummary(m) ==
  [itemWanted |-> m.buyIntent.itemWanted,
   priceType |-> IF Truthy(m.estimatedMarketPrice) THEN "est. market price"
                 ELSE "buyer stated",
   price |-> IF Truthy(m.estimatedMarketPrice) THEN m.estimatedMarketPrice
             ELSE m.buyIntent.maxPrice,
   source |-> m.buyIntent.source, postUrl |-> m.buyIntent.postUrl,
   listing |-> m.sourceListing, fees |-> m.fees, profit |-> m.estimatedProfit]

\* buildVerificationPrompt
BuildVerificationPrompt(matches) ==
  LET topMatches == Slice(matches, TOP_MATCHES)
  IN [k \in 1..Len(topMatches) |-> MatchSummary(topMatches[k])]

-----------------------------------------------------------------------------
(* runner.ts: parseOpportunities.  The text of a response is a sequence of *)
(* tokens: the two tags, prose, and JSON-looking payloads.                 *)

OpenTag == [tok |-> "<opportunities>"]
CloseTag == [tok |-> "</opportunities>"]
Prose == [tok |-> "prose"]
\* text that JSON.parse decodes to `value`
Json(value) == [tok |-> "json", value |-> value]

\* parseOpportunities 365-368: the text blocks joined
RECURSIVE JoinText(_)
JoinText(content) ==
  IF content = <<>> THEN <<>>
  ELSE (IF Head(content).type = "text" THEN Head(content).text ELSE <<>>)
       \o JoinText(Tail(content))

\* parseOpportunities 378-385: the filter on one decoded element
HasRequiredFields(o) ==
  /\ o.title # ""
  /\ o.buyPrice # Null
  /\ o.sellPrice # Null
  /\ o.buySource # ""
  /\ o.sellSource # ""

\* parseOpportunities 386-392
WithDefaults(o) ==
  [o EXCEPT !.sellPriceType = IF o.sellPriceType = "" THEN "verified" ELSE o.sellPriceType]

\* the payload of the first JSON text anywhere in the response
ParseOpportunitiesUndelimited(resp) ==
  LET text == JoinText(resp.content)
      found == {k \in 1..Len(text) : text[k].tok = "json"}
  IN IF found = {} THEN <<>>
     ELSE LET first == CHOOSE k \in found : \A j \in found : k <= j
          IN text[first].value.items

\* parseOpportunities
ParseOpportunities(resp) ==
  LET text == JoinText(resp.content)
      opens == {k \in 1..Len(text) : text[k] = OpenTag}
  IN IF opens = {} THEN <<>>
     ELSE
       LET first == CHOOSE k \in opens : \A j \in opens : k <= j
           closes == {k \in (first + 1)..Len(text) : text[k] = CloseTag}
       IN IF closes = {} THEN <<>>
          ELSE
            LET last == CHOOSE k \in closes : \A j \in closes : k <= j
                inner == SubSeq(text, first + 1, last - 1)
            IN \* JSON.parse throws unless the block is one JSON text
               IF Len(inner) # 1 \/ inner[1].tok # "json" THEN <<>>
               ELSE
                 LET parsed == inner[1].value
                 IN IF parsed.kind # "array" THEN <<>>
                    \* reading .title of a null element throws
                    ELSE IF \E k \in 1..Len(parsed.items) : parsed.items[k].isNull
                    THEN <<>>
                    ELSE LET kept == SelectSeq(parsed.items, HasRequiredFields)
                         IN [k \in 1..Len(kept) |-> WithDefaults(kept[k])]

-----------------------------------------------------------------------------
(* The CostGovernor of @/lib/budget *)

\* the daily token limit of the budget configuration
DailyTokenLimit == 2000

\* checkBudget
CheckBudgetAnswer(used) ==
  [allowed |-> used < DailyTokenLimit, used |-> used, limit |-> DailyTokenLimit]

\* recordUsage: the new value of the usage counter
RecordUsage(used, inputTokens, outputTokens, otherCost) ==
  used + inputTokens + outputTokens

-----------------------------------------------------------------------------
(* The generative capability: what callClaude may resolve with *)

Opportunity(title, buyPrice, sellPriceType) ==
  [isNull |-> FALSE, title |-> title, buyPrice |-> buyPrice, sellPrice |-> 80000,
   buySource |-> "eBay", sellSource |-> "r/hardwareswap",
   sellPriceType |-> sellPriceType]

NullElement ==
  [isNull |-> TRUE, title |-> "", buyPrice |-> Null, sellPrice |-> Null,
   buySource |-> "", sellSource |-> "", sellPriceType |-> ""]

Array(items) == [kind |-> "array", items |-> items]

GoodArray ==
  Array(<< Opportunity("RTX 3080 flip", 60000, ""),
           Opportunity("", 60000, "estimated"),
           Opportunity("no price", Null, "") >>)

\* well-formed texts
GoodTexts ==
  { <<Prose, OpenTag, Json(GoodArray), CloseTag, Prose>>,
    <<OpenTag, Json(Array(<<>>)), CloseTag>> }

\* texts without the delimiter pair, or whose block is not a JSON array
MalformedTexts ==
  { <<Prose>>,
    <<Prose, Json(GoodArray)>>,
    <<OpenTag, Json(GoodArray)>>,
    <<CloseTag, Json(GoodArray), OpenTag>>,
    <<OpenTag, Prose, CloseTag>>,
    <<OpenTag, Json(GoodArray), Prose, CloseTag>>,
    <<OpenTag, Json([kind |-> "object", items |-> <<>>]), CloseTag>> }

Usages ==
  { [input_tokens |-> 1200, output_tokens |-> 300],
    [input_tokens |-> 900, output_tokens |-> 150] }

ClaudeResponses ==
  { [usage |-> u, content |-> << [type |-> "text", text |-> t] >>] :
      u \in Usages, t \in GoodTexts \cup MalformedTexts }
  \cup
  { [usage |-> [input_tokens |-> 900, output_tokens |-> 150],
     content |-> << [type |-> "text", text |-> <<Prose, OpenTag>>],
                    [type |-> "tool_use", text |-> <<Prose>>],
                    [type |-> "text", text |-> <<Json(Array(<<NullElement>>)), CloseTag>>] >>] }

\* no harvest under way
HarvestIdle ==
  /\ hpc = "idle"
  /\ hIdx = 1
  /\ allIntents = <<>>
  /\ seenUrls = {}
  /\ hDiag = <<>>
  /\ hCalls = 0
  /\ hWaited = 0
  /\ harvest = NoHarvest

\* no source search under way
SourceIdle ==
  /\ spc = "idle"
  /\ sIdx = 1
  /\ topIntents = <<>>
  /\ matched = <<>>
  /\ sDiag = <<>>
  /\ sCalls = 0
  /\ sWaited = 0
  /\ lastListings = NoListings
  /\ sourceResult = NoSource

\* no pipeline run under way
RunIdle ==
  /\ pc = "idle"
  /\ excludeKeys = {}
  /\ timer = "unset"
  /\ events = <<>>
  /\ freshIntents = <<>>
  /\ searchedKeys = <<>>
  /\ budget = NoBudget
  /\ totalInputTokens = 0
  /\ totalOutputTokens = 0
  /\ response = NoResponse
  /\ returned = NoResult
  /\ raised = ""

LibIdle ==
  /\ budgetUsed = 0
  /\ budgetChecks = 0
  /\ claudeCalls = <<>>
  /\ recorded = <<>>

\* harvestBuyIntents called on its own, on the "price" web
InitPrice ==
  /\ mode = "price"
  /\ faults = 0
  /\ posts = 0
  /\ now = NowHours
  /\ runs = <<>>
  /\ hpc = "fetch"
  /\ hIdx = 1
  /\ allIntents = <<>>
  /\ seenUrls = {}
  /\ hDiag = <<>>
  /\ hCalls = 0
  /\ hWaited = 0
  /\ harvest = NoHarvest
  /\ SourceIdle
  /\ RunIdle
  /\ LibIdle

vars == <<envVars, harvVars, srcVars, runVars, libVars>>

-----------------------------------------------------------------------------
(* findSourcesForIntents: one loop iteration per action, split at its awaits *)

\* findSourcesForIntents 186-187
SourceReturn(matches, diagnostics, calls) ==
  [matched |-> SortMatches(matches), diagnostics |-> diagnostics,
   tavilyCallCount |-> calls]

\* a failed search diagnosed as one that found nothing
SearchErrorDiagAsEmpty(intent, message) ==
  [source |-> <<"search", intent.itemWanted>>, status |-> "empty",
   itemCount |-> 0, error |-> ""]

\* findSourcesForIntents 171-179: the diagnostic of a failed search
SearchErrorDiag(intent, message) ==
  [source |-> <<"search", intent.itemWanted>>, status |-> "error",
   itemCount |-> 0, error |-> message]

\* findSourcesForIntents 93-179 (and 186-187 after the last intent): the
\* search for intent sIdx settles
SourceFetch ==
  /\ pc = "source"
  /\ spc = "fetch"
  /\ \E resp \in SourceResponses(topIntents[sIdx]) :
       LET intent == topIntents[sIdx]
           ok == resp.kind = "ok"
           found == IF ok THEN SearchForItem(resp.results) ELSE <<>>
           got == IF ok THEN MatchIntent(intent, found)
                  ELSE [matches |-> <<>>, diag |-> SearchErrorDiag(intent, resp.error)]
           matches == matched \o got.matches
           diags == Append(sDiag, got.diag)
           calls == IF ok THEN sCalls + 1 ELSE sCalls
       IN /\ matched' = matches
          /\ sDiag' = diags
          /\ sCalls' = calls
          /\ sWaited' = sWaited
          /\ lastListings' = IF ok THEN [found |-> found] ELSE NoListings
          /\ faults' = IF ok THEN faults ELSE faults + 1
          /\ IF sIdx < Len(topIntents)
             THEN /\ spc' = "delay"
                  /\ sourceResult' = sourceResult
             ELSE /\ spc' = "returned"
                  /\ sourceResult' = SourceReturn(matches, diags, calls)
  /\ UNCHANGED <<sIdx, topIntents, mode, posts, now, runs, harvVars, runVars, libVars>>

-----------------------------------------------------------------------------
(* runBuyerIntentPipeline: one action per stretch of code between awaits.  *)
(* Every call of the progress sink may throw; `t` is the emit of the       *)
(* stretch at which it does (0: it does not), `sinkOk` whether the sink    *)
(* takes the error event of the catch block.                               *)

Core(p, t, evs, ret, message) ==
  /\ pc' = p
  /\ timer' = t
  /\ events' = evs
  /\ returned' = ret
  /\ raised' = message

\* a catch block that leaves the timer armed
CatchKeepsTimer(t, evs, message, sinkOk) ==
  Core("done", t, Append(evs, ErrorEvent),
       IF sinkOk THEN FailureResult(message, totalInputTokens, totalOutputTokens)
       ELSE Rejection(SinkError),
       message)

\* runner.ts 257-272: the catch block, after `evs` were delivered
Catch(t, evs, message, sinkOk) ==
  Core("done", ClearTimeout(t), Append(evs, ErrorEvent),
       IF sinkOk THEN FailureResult(message, totalInputTokens, totalOutputTokens)
       ELSE Rejection(SinkError),
       message)

\* runner.ts 51-77: the call, up to the await of harvestBuyIntents
Start ==
  /\ pc = "idle"
  /\ mode # "price"
  /\ \E t \in 0..1, sinkOk \in BOOLEAN :
       LET emits == <<HarvestEntryEvent>>
       IN IF t = 0
          THEN /\ sinkOk
               /\ Core("harvest", "armed", events \o emits, NoResult, "")
               /\ hpc' = "fetch"
          ELSE /\ Catch("armed", events \o SubSeq(emits, 1, t), SinkError, sinkOk)
               /\ hpc' = hpc
  /\ UNCHANGED <<hIdx, allIntents, seenUrls, hDiag, hCalls, hWaited, harvest, srcVars,
                 excludeKeys, freshIntents, searchedKeys, budget, totalInputTokens,
                 totalOutputTokens, response, libVars, envVars>>

\* runner.ts 79-147 and findSourcesForIntents 77-96: from the return of the
\* harvest to the first source search (or to the empty-harvest return)
AfterHarvest ==
  /\ pc = "harvest"
  /\ hpc = "returned"
  /\ LET fresh == FreshIntents(harvest.intents, excludeKeys)
         empty == Len(fresh) = 0
         emits == IF empty THEN <<HarvestCountEvent, CompletedEvent>>
                  ELSE <<HarvestCountEvent, SourceEntryEvent, SearchEvent(1)>>
     IN \E t \in 0..Len(emits), sinkOk \in BOOLEAN :
          IF t = 0
          THEN /\ sinkOk
               /\ freshIntents' = fresh
               /\ IF empty
                  THEN /\ Core("done", ClearTimeout(timer), events \o emits,
                               EmptyHarvestResult(harvest), "")
                       /\ UNCHANGED <<spc, topIntents>>
                  ELSE /\ Core("source", timer, events \o emits, NoResult, "")
                       /\ spc' = "fetch"
                       /\ topIntents' = Slice(fresh, MAX_INTENTS_TO_SEARCH)
          ELSE /\ Catch(timer, events \o SubSeq(emits, 1, t), SinkError, sinkOk)
               /\ UNCHANGED <<freshIntents, spc, topIntents>>
  /\ UNCHANGED <<sIdx, matched, sDiag, sCalls, sWaited, lastListings, sourceResult,
                 harvVars,
                 excludeKeys, searchedKeys, budget, totalInputTokens,
                 totalOutputTokens, response, libVars, envVars>>

\* findSourcesForIntents 181-183, 83-96: the delay is over, the next intent
\* is announced and searched
SourceDelay ==
  /\ pc = "source"
  /\ spc = "delay"
  /\ sWaited' = sWaited + TAVILY_DELAY_MS
  /\ \E t \in 0..1, sinkOk \in BOOLEAN :
       LET emits == <<SearchEvent(sIdx + 1)>>
       IN IF t = 0
          THEN /\ sinkOk
               /\ sIdx' = sIdx + 1
               /\ spc' = "fetch"
               /\ events' = events \o emits
               /\ UNCHANGED <<pc, timer, returned, raised>>
          ELSE /\ Catch(timer, events \o SubSeq(emits, 1, t), SinkError, sinkOk)
               /\ UNCHANGED <<sIdx, spc>>
  /\ UNCHANGED <<topIntents, matched, sDiag, sCalls, lastListings, sourceResult,
                 harvVars,
                 excludeKeys, freshIntents, searchedKeys, budget, totalInputTokens,
                 totalOutputTokens, response, libVars, envVars>>

\* runner.ts 149-188: from the return of the matcher to the await of
\* loadBudgetConfig (or to the no-match return)
AfterSource ==
  /\ pc = "source"
  /\ spc = "returned"
  /\ LET none == Len(sourceResult.matched) = 0
         emits == IF none THEN <<MatchCountEvent, CompletedEvent>>
                  ELSE <<MatchCountEvent>>
     IN \E t \in 0..Len(emits), sinkOk \in BOOLEAN :
          IF t = 0
          THEN /\ sinkOk
               /\ searchedKeys' = SearchedKeys(freshIntents)
               /\ IF none
                  THEN Core("done", ClearTimeout(timer), events \o emits,
                            NoMatchResult(harvest, sourceResult, freshIntents), "")
                  ELSE Core("loadBudget", timer, events \o emits, NoResult, "")
          ELSE /\ Catch(timer, events \o SubSeq(emits, 1, t), SinkError, sinkOk)
               /\ UNCHANGED searchedKeys
  /\ UNCHANGED <<harvVars, srcVars, excludeKeys, freshIntents, budget,
                 totalInputTokens, totalOutputTokens, response, libVars, envVars>>

\* whether an awaited call of @/lib settles or throws
LibOutcomes == {"ok"} \cup (IF faults < MaxFaults THEN {"throws"} ELSE {})

\* runner.ts 188-189: loadBudgetConfig settles, checkBudget is called
LoadBudget ==
  /\ pc = "loadBudget"
  /\ \E o \in LibOutcomes, sinkOk \in BOOLEAN :
       IF o = "ok"
       THEN /\ sinkOk
            /\ Core("checkBudget", timer, events, NoResult, "")
            /\ budgetChecks' = budgetChecks + 1
            /\ faults' = faults
       ELSE /\ Catch(timer, events, "budget configuration unavailable", sinkOk)
            /\ budgetChecks' = budgetChecks
            /\ faults' = faults + 1
  /\ UNCHANGED <<harvVars, srcVars, excludeKeys, freshIntents, searchedKeys, budget,
                 totalInputTokens, totalOutputTokens, response, budgetUsed,
                 claudeCalls, recorded, mode, posts, now,
                 runs>>

\* runner.ts 189-219: checkBudget settles; the abort, or the call of callClaude
CheckBudget ==
  /\ pc = "checkBudget"
  /\ \E o \in LibOutcomes, t \in 0..1, sinkOk \in BOOLEAN :
       LET answer == CheckBudgetAnswer(budgetUsed)
           emits == <<CallingClaudeEvent>>
       IN IF o = "throws"
          THEN /\ t = 0
               /\ Catch(timer, events, "budget store unavailable", sinkOk)
               /\ faults' = faults + 1
               /\ UNCHANGED <<budget, claudeCalls>>
          ELSE /\ faults' = faults
               /\ budget' = answer
               /\ IF ~answer.allowed
                  THEN /\ t = 0
                       /\ sinkOk
                       /\ Core("done", ClearTimeout(timer), events,
                               BudgetAbortResult(harvest, sourceResult), "")
                       /\ UNCHANGED claudeCalls
                  ELSE IF t = 0
                  THEN /\ sinkOk
                       /\ Core("claude", timer, events \o emits, NoResult, "")
                       /\ claudeCalls' =
                            Append(claudeCalls, BuildVerificationPrompt(sourceResult.matched))
                  ELSE /\ Catch(timer, events \o SubSeq(emits, 1, t), SinkError, sinkOk)
                       /\ UNCHANGED claudeCalls
  /\ UNCHANGED <<harvVars, srcVars, excludeKeys, freshIntents, searchedKeys,
                 totalInputTokens, totalOutputTokens, response, budgetUsed,
                 budgetChecks, recorded, mode, posts, now,
                 runs>>

\* the otherCost argument of runner.ts 223, in units of $0.001
OtherCost(h, src) == 0

\* a call of recordUsage with the two token counts in each other's place
RecordUsageArgsSwapped(r, other) ==
  [label |-> "buyer-intent", inputTokens |-> r.usage.output_tokens,
   outputTokens |-> r.usage.input_tokens, otherCost |-> other]

\* runner.ts 221-223: the arguments of recordUsage
RecordUsageArgs(r, other) ==
  [label |-> "buyer-intent", inputTokens |-> r.usage.input_tokens,
   outputTokens |-> r.usage.output_tokens, otherCost |-> other]

\* runner.ts 211-223: callClaude settles, recordUsage is called
ClaudeReturns ==
  /\ pc = "claude"
  /\ \E sinkOk \in BOOLEAN :
     \E r \in ClaudeResponses \cup (IF faults < MaxFaults THEN {NoResponse} ELSE {}) :
       IF r = NoResponse
       THEN /\ Catch(timer, events, "Claude API error", sinkOk)
            /\ faults' = faults + 1
            /\ UNCHANGED <<response, totalInputTokens, totalOutputTokens, recorded>>
       ELSE /\ sinkOk
            /\ faults' = faults
            /\ response' = r
            /\ totalInputTokens' = r.usage.input_tokens
            /\ totalOutputTokens' = r.usage.output_tokens
            /\ recorded' = Append(recorded,
                 RecordUsageArgs(r, OtherCost(harvest, sourceResult)))
            /\ Core("record", timer, events, NoResult, "")
  /\ UNCHANGED <<harvVars, srcVars, excludeKeys, freshIntents, searchedKeys, budget,
                 budgetUsed, budgetChecks, claudeCalls, mode, posts, now,
                 runs>>

\* runner.ts 223-255: recordUsage settles; the response is parsed and the
\* verified result returned
RecordReturns ==
  /\ pc = "record"
  /\ \E o \in LibOutcomes, t \in 0..1, sinkOk \in BOOLEAN :
       LET emits == <<CompletedEvent>>
           call == recorded[Len(recorded)]
           opportunities == ParseOpportunities(response)
       IN IF o = "throws"
          THEN /\ t = 0
               /\ Catch(timer, events, "usage store unavailable", sinkOk)
               /\ faults' = faults + 1
               /\ budgetUsed' = budgetUsed
          ELSE /\ faults' = faults
               /\ budgetUsed' = RecordUsage(budgetUsed, call.inputTokens,
                                            call.outputTokens, call.otherCost)
               /\ IF t = 0
                  THEN /\ sinkOk
                       /\ Core("done", ClearTimeout(timer), events \o emits,
                               VerifiedResult(harvest, sourceResult, freshIntents,
                                              opportunities, totalInputTokens,
                                              totalOutputTokens), "")
                  ELSE Catch(timer, events \o SubSeq(emits, 1, t), SinkError, sinkOk)
  /\ UNCHANGED <<harvVars, srcVars, excludeKeys, freshIntents, searchedKeys, budget,
                 totalInputTokens, totalOutputTokens, response, budgetChecks,
                 claudeCalls, recorded, mode, posts, now,
                 runs>>

\* runner.ts 65-67: the 60 s timer expires
TimerFires ==
  /\ timer = "armed"
  /\ timer' = "fired"
  /\ events' = Append(events, TimeoutEvent)
  /\ UNCHANGED <<pc, excludeKeys, freshIntents, searchedKeys, budget,
                 totalInputTokens, totalOutputTokens, response, returned, raised,
                 harvVars, srcVars, libVars, envVars>>

\* a run about to be called, with its userConfig.excludeSearched and the
\* state of the budget store
InitRun(m, f, excluded) ==
  /\ mode = m
  /\ faults = f
  /\ posts = 0
  /\ now = NowHours
  /\ runs = <<>>
  /\ HarvestIdle
  /\ SourceIdle
  /\ pc = "idle"
  /\ excludeKeys \in excluded
  /\ timer = "unset"
  /\ events = <<>>
  /\ freshIntents = <<>>
  /\ searchedKeys = <<>>
  /\ budget = NoBudget
  /\ totalInputTokens = 0
  /\ totalOutputTokens = 0
  /\ response = NoResponse
  /\ returned = NoResult
  /\ raised = ""
  /\ budgetUsed \in {0, DailyTokenLimit}
  /\ budgetChecks = 0
  /\ claudeCalls = <<>>
  /\ recorded = <<>>

Next ==
  \/ Start
  \/ HarvestFetch
  \/ HarvestDelay
  \/ AfterHarvest
  \/ SourceFetch
  \/ SourceDelay
  \/ AfterSource
  \/ LoadBudget
  \/ CheckBudget
  \/ ClaudeReturns
  \/ RecordReturns
  \/ TimerFires

\* a run against a web of few postings, in which calls may fail
Init == InitRun("pipeline", 0, ExcludeMenu)

Spec == Init /\ [][Next]_vars

\* a run against a web of fifteen fresh postings, in which no search fails
InitCap == InitRun("cap", MaxFaults, {{}})

SpecCap == InitCap /\ [][Next]_vars

\* findSourcesForIntents called on its own with a progress callback, at the
\* await of its first search
InitMatch ==
  /\ mode = "match"
  /\ faults = 0
  /\ posts = 0
  /\ now = NowHours
  /\ runs = <<>>
  /\ HarvestIdle
  /\ spc = "fetch"
  /\ sIdx = 1
  /\ topIntents \in {Slice(l, MAX_INTENTS_TO_SEARCH) : l \in MatchIntentLists}
  /\ matched = <<>>
  /\ sDiag = <<>>
  /\ sCalls = 0
  /\ sWaited = 0
  /\ lastListings = NoListings
  /\ sourceResult = NoSource
  /\ pc = "source"
  /\ excludeKeys = {}
  /\ timer = "unset"
  /\ events = <<SearchEvent(1)>>
  /\ freshIntents = <<>>
  /\ searchedKeys = <<>>
  /\ budget = NoBudget
  /\ totalInputTokens = 0
  /\ totalOutputTokens = 0
  /\ response = NoResponse
  /\ returned = NoResult
  /\ raised = ""
  /\ LibIdle

NextMatch == SourceFetch \/ SourceDelay

SpecMatch == InitMatch /\ [][NextMatch]_vars

NextHarvest == HarvestFetch \/ HarvestDelay

\* harvestBuyIntents called on its own, on the "fresh" web
InitFresh ==
  /\ mode = "fresh"
  /\ faults = 0
  /\ posts = 0
  /\ now = NowHours
  /\ runs = <<>>
  /\ hpc = "fetch"
  /\ hIdx = 1
  /\ allIntents = <<>>
  /\ seenUrls = {}
  /\ hDiag = <<>>
  /\ hCalls = 0
  /\ hWaited = 0
  /\ harvest = NoHarvest
  /\ SourceIdle
  /\ RunIdle
  /\ LibIdle

SpecFresh == InitFresh /\ [][NextHarvest]_vars

SpecPrice == InitPrice /\ [][NextHarvest]_vars

\* a run at one of two times against a web that answers every search the
\* same way, and in which no search fails
InitReplay ==
  /\ mode = "replay"
  /\ faults = MaxFaults
  /\ posts = 0
  /\ now \in ReplayTimes
  /\ runs = <<>>
  /\ HarvestIdle
  /\ SourceIdle
  /\ RunIdle
  /\ LibIdle

SpecReplay == InitReplay /\ [][Next]_vars

-----------------------------------------------------------------------------
(* Concurrent runs sharing the CostGovernor.  Each run is taken from       *)
(* runner.ts 188 (its matcher has returned matches) to 223, with awaited   *)
(* calls that settle normally; the runs interleave at the awaits.          *)

\* pipeline runs in flight at once
NumRuns == 2

Runs == 1..NumRuns

\* usage already recorded when the runs reach the budget check: none, all but
\* a thousand tokens of the limit, all of it
ConcBudgets == {0, DailyTokenLimit - 1000, DailyTokenLimit}

\* runner.ts 188: loadBudgetConfig settles, checkBudget is called
ConcLoadBudget(r) ==
  /\ runs[r].pc = "loadBudget"
  /\ runs' = [runs EXCEPT ![r].pc = "checkBudget"]
  /\ budgetChecks' = budgetChecks + 1
  /\ UNCHANGED <<budgetUsed, claudeCalls, recorded, mode, faults, posts, now,
                 harvVars, srcVars, runVars>>

\* runner.ts 189-219: checkBudget settles; the abort, or the call of callClaude
ConcCheckBudget(r) ==
  /\ runs[r].pc = "checkBudget"
  /\ LET answer == CheckBudgetAnswer(budgetUsed)
     IN /\ runs' = [runs EXCEPT ![r].budget = answer,
                                ![r].pc = IF answer.allowed THEN "claude" ELSE "done"]
        /\ claudeCalls' = IF answer.allowed THEN Append(claudeCalls, r) ELSE claudeCalls
  /\ UNCHANGED <<budgetUsed, budgetChecks, recorded, mode, faults, posts, now,
                 harvVars, srcVars, runVars>>

\* runner.ts 211-223: callClaude settles, recordUsage is called
ConcClaudeReturns(r) ==
  /\ runs[r].pc = "claude"
  /\ \E u \in Usages :
       /\ runs' = [runs EXCEPT ![r].totalInputTokens = u.input_tokens,
                               ![r].totalOutputTokens = u.output_tokens,
                               ![r].pc = "record"]
       /\ recorded' = Append(recorded,
            [label |-> "buyer-intent", inputTokens |-> u.input_tokens,
             outputTokens |-> u.output_tokens, otherCost |-> 0])
  /\ UNCHANGED <<budgetUsed, budgetChecks, claudeCalls, mode, faults, posts, now,
                 harvVars, srcVars, runVars>>

\* runner.ts 223-255: recordUsage settles, the run returns
ConcRecordReturns(r) ==
  /\ runs[r].pc = "record"
  /\ budgetUsed' = RecordUsage(budgetUsed, runs[r].totalInputTokens,
                               runs[r].totalOutputTokens, 0)
  /\ runs' = [runs EXCEPT ![r].pc = "done"]
  /\ UNCHANGED <<budgetChecks, claudeCalls, recorded, mode, faults, posts, now,
                 harvVars, srcVars, runVars>>

InitConc ==
  /\ mode = "conc"
  /\ faults = MaxFaults
  /\ posts = 0
  /\ now = NowHours
  /\ runs = [r \in Runs |-> [pc |-> "loadBudget", budget |-> NoBudget,
                              totalInputTokens |-> 0, totalOutputTokens |-> 0]]
  /\ HarvestIdle
  /\ SourceIdle
  /\ RunIdle
  /\ budgetUsed \in ConcBudgets
  /\ budgetChecks = 0
  /\ claudeCalls = <<>>
  /\ recorded = <<>>

NextConc ==
  \E r \in Runs :
    \/ ConcLoadBudget(r)
    \/ ConcCheckBudget(r)
    \/ ConcClaudeReturns(r)
    \/ ConcRecordReturns(r)

SpecConc == InitConc /\ [][NextConc]_vars

-----------------------------------------------------------------------------
(* Claims *)

\* the harvest returned something the exclusion list does not hold
SomeFreshIntent ==
  /\ harvest # NoHarvest
  /\ \E k \in 1..Len(harvest.intents) : IntentKey(harvest.intents[k]) \notin excludeKeys

\* the run has reached the budget phase
BudgetPhaseEntered ==
  budgetChecks > 0 \/ pc \in {"loadBudget", "checkBudget", "claude", "record"}

\* C1: the phases of a run follow HARVEST -> SOURCE -> BUDGET_CHECK -> VERIFY
\* -> DONE without overlap: no source search before the harvest has returned
\* at least one non-excluded intent, no budget check before the matcher has
\* returned at least one match, no generative call before an allowing budget
\* check; and a run in which no exception is raised and whose harvest yields
\* no intent, or whose matcher yields no match, ends with success=true and
\* opportunities=[] without any call of a later phase
C1_PhaseOrder ==
  /\ hpc \in {"fetch", "delay"} =>
       spc = "idle" /\ ~BudgetPhaseEntered /\ claudeCalls = <<>> /\ recorded = <<>>
  /\ spc # "idle" => hpc = "returned" /\ SomeFreshIntent
  /\ spc \in {"fetch", "delay"} =>
       ~BudgetPhaseEntered /\ claudeCalls = <<>> /\ recorded = <<>>
  /\ BudgetPhaseEntered =>
       spc = "returned" /\ Len(sourceResult.matched) >= 1
  /\ claudeCalls # <<>> =>
       budgetChecks > 0 /\ budget # NoBudget /\ budget.allowed
  /\ recorded # <<>> => claudeCalls # <<>>
  /\ (pc = "done" /\ raised = "" /\ hpc = "returned" /\ ~SomeFreshIntent) =>
       /\ returned.success
       /\ returned.opportunities = <<>>
       /\ spc = "idle"
       /\ sCalls = 0
       /\ budgetChecks = 0
       /\ claudeCalls = <<>>
  /\ (pc = "done" /\ raised = "" /\ spc = "returned"
        /\ Len(sourceResult.matched) = 0) =>
       /\ returned.success
       /\ returned.opportunities = <<>>
       /\ budgetChecks = 0
       /\ claudeCalls = <<>>

\* a run that harvested, searched two intents, found no match and returned
C1_Witness ==
  /\ pc = "done"
  /\ raised = ""
  /\ spc = "returned"
  /\ Len(sourceResult.diagnostics) = 2
  /\ Len(sourceResult.matched) = 0
  /\ returned.success
  /\ budgetChecks = 0

\* C2: when checkBudget answers allowed=false the run returns success=false,
\* opportunities=[] and an abortReason, and has called neither callClaude nor
\* recordUsage
C2_BudgetDenied ==
  (budget # NoBudget /\ ~budget.allowed) =>
    /\ pc = "done"
    /\ returned.rejected = FALSE
    /\ returned.success = FALSE
    /\ returned.opportunities = <<>>
    /\ returned.abortReason # ""
    /\ claudeCalls = <<>>
    /\ recorded = <<>>

\* a run with matches that the budget check turned down
C2_Witness ==
  /\ budget # NoBudget
  /\ ~budget.allowed
  /\ pc = "done"
  /\ Len(sourceResult.matched) >= 1
  /\ returned.abortReason = "Daily token budget exceeded"

\* C3: whatever exception a phase of the run raises, a throwing progress sink
\* included, the promise of the run does not reject: it resolves with
\* success=false, opportunities=[] and the message of the exception as error
C3_NeverRejects ==
  (pc = "done" /\ raised # "") =>
    /\ returned.rejected = FALSE
    /\ returned.success = FALSE
    /\ returned.opportunities = <<>>
    /\ returned.error = raised

\* the text of the response lacks the delimiter pair, or its block is not a
\* JSON array
MalformedResponse ==
  /\ response # NoResponse
  /\ Len(response.content) = 1
  /\ response.content[1].text \in MalformedTexts

\* C4: when the text callClaude resolves with lacks the <opportunities> pair,
\* or the block between the pair is not a JSON array, a run in which nothing
\* throws returns the verified result with success=true and opportunities=[]
C4_MalformedOutput ==
  (pc = "done" /\ raised = "" /\ MalformedResponse) =>
    /\ returned.rejected = FALSE
    /\ returned.success
    /\ returned.opportunities = <<>>
    /\ returned.error = ""
    /\ returned.totalToolCalls = 1

\* a verified result from a response whose block holds prose after the array
C4_Witness ==
  /\ pc = "done"
  /\ raised = ""
  /\ MalformedResponse
  /\ response.content[1].text = <<OpenTag, Json(GoodArray), Prose, CloseTag>>
  /\ returned.success
  /\ returned.totalToolCalls = 1

\* the counter value `used` leaves room for one verification call only
AdmitsOnlyOne(used) ==
  /\ used < DailyTokenLimit
  /\ \A u \in Usages : used + u.input_tokens + u.output_tokens >= DailyTokenLimit

\* C5: of two concurrent runs sharing the usage counter, when the remaining
\* budget admits one verification only, no two pass the budget check on it
\* and call the generative capability
C5_AtomicCheckThenRecord ==
  \A r1 \in DOMAIN runs, r2 \in DOMAIN runs :
    (r1 # r2 /\ runs[r1].budget # NoBudget /\ runs[r2].budget # NoBudget) =>
      ~ /\ runs[r1].budget.allowed
        /\ runs[r2].budget.allowed
        /\ runs[r1].budget.used = runs[r2].budget.used
        /\ AdmitsOnlyOne(runs[r1].budget.used)

TimeoutCount == Cardinality({k \in 1..Len(events) : events[k] = TimeoutEvent})

\* C6: the deadline timer fires only in a run that has not returned, at most
\* once, and its firing appends one 'error' event to what the sink received
\* and changes nothing else of the run, of its phases or of its collaborators
C6_TimerOnlyNotifies ==
  /\ [](TimeoutCount <= 1 /\ (timer = "fired" <=> TimeoutCount = 1))
  /\ [][(timer # "fired" /\ timer' = "fired") =>
          /\ pc # "done"
          /\ events' = Append(events, TimeoutEvent)
          /\ UNCHANGED <<pc, excludeKeys, freshIntents, searchedKeys, budget,
                         totalInputTokens, totalOutputTokens, response, returned,
                         raised, harvVars, srcVars, libVars, envVars>>]_vars
  /\ [][TimeoutCount' >= TimeoutCount]_vars

\* a run whose timer fired during the harvest and which went on to return a
\* verified result
C6_Witness ==
  /\ timer = "fired"
  /\ pc = "done"
  /\ raised = ""
  /\ Len(events) >= 2
  /\ events[2] = TimeoutEvent
  /\ returned.success
  /\ returned.totalToolCalls = 1

\* the place of a phase event in the documented order
Rank(e) ==
  CASE e.tag = "harvest_entry" -> 1
    [] e.tag = "harvest_count" -> 2
    [] e.tag = "source_entry" -> 3
    [] e.tag = "search" -> 4
    [] e.tag = "match_count" -> 5
    [] e.tag = "calling_claude" -> 6
    [] e.tag = "completed" -> 7

PhaseEvents == SelectSeq(events, LAMBDA e : e.type # "error")

\* C7: the phase events delivered to the sink are in phase order: harvest
\* entry, harvest count, source entry, the per-intent search events by
\* increasing index, match count, calling_claude, completed; none of an
\* earlier phase follows one of a later phase and none follows 'completed'
C7_EventOrder ==
  LET p == PhaseEvents
  IN /\ \A j \in 1..Len(p), k \in 1..Len(p) :
          j < k => \/ Rank(p[j]) < Rank(p[k])
                   \/ p[j].tag = "search" /\ p[k].tag = "search" /\ p[j].i < p[k].i
     /\ Len(p) >= 1 => p[1] = HarvestEntryEvent
     /\ \A k \in 1..Len(p) : p[k].tag = "completed" => k = Len(p)

\* a verified run over two intents: all seven kinds of phase event
C7_Witness ==
  /\ pc = "done"
  /\ raised = ""
  /\ PhaseEvents = << HarvestEntryEvent, HarvestCountEvent, SourceEntryEvent,
                      SearchEvent(1), SearchEvent(2), MatchCountEvent,
                      CallingClaudeEvent, CompletedEvent >>

\* C8: the matcher searches at most 14 intents, the first 14 of the fresh
\* list, and a run makes at most 6 + 14 search calls
C8_SearchCap ==
  /\ Len(topIntents) <= SEARCH_COUNT_CAP
  /\ topIntents \in {<<>>, Slice(freshIntents, SEARCH_COUNT_CAP)}
  /\ sCalls <= SEARCH_COUNT_CAP
  /\ hCalls + sCalls <= Len(HARVEST_QUERIES) + SEARCH_COUNT_CAP

\* C9: the recordUsage call carries the token counts of the response and, as
\* other cost, the search cost of the run: one unit of $0.001 per harvest and
\* source search call
C9_MergedCost ==
  (harvest # NoHarvest /\ sourceResult # NoSource /\ response # NoResponse) =>
    \A k \in 1..Len(recorded) :
      /\ recorded[k].inputTokens = response.usage.input_tokens
      /\ recorded[k].outputTokens = response.usage.output_tokens
      /\ recorded[k].otherCost = harvest.tavilyCallCount + sourceResult.tavilyCallCount

-----------------------------------------------------------------------------
\* C10: every intent of the list harvestBuyIntents returns has maxPrice >= 0,
\* and hasStatedPrice is false exactly when maxPrice is 0
C10_PriceFlag ==
  harvest # NoHarvest =>
    \A k \in 1..Len(harvest.intents) :
      /\ harvest.intents[k].maxPrice >= 0
      /\ (harvest.intents[k].hasStatedPrice = FALSE) <=> (harvest.intents[k].maxPrice = 0)

\* a returned list holding an intent with no amount anywhere and one priced
\* from the body alone
C10_Witness ==
  /\ harvest # NoHarvest
  /\ \E k \in 1..Len(harvest.intents) :
       /\ harvest.intents[k].hasStatedPrice = FALSE
       /\ harvest.intents[k].maxPrice = 0
  /\ \E k \in 1..Len(harvest.intents) :
       /\ harvest.intents[k].hasStatedPrice
       /\ harvest.intents[k].maxPrice = 70000

-----------------------------------------------------------------------------
\* the matches the matcher holds: those collected so far and those returned
AllMatches ==
  matched \o (IF sourceResult = NoSource THEN <<>> ELSE sourceResult.matched)

\* C11: every match of an intent with a stated price has a listing strictly
\* cheaper than the buyer's maxPrice, and an estimatedProfit equal to
\* maxPrice - listing price - fees.total that is at least 1500 cents
C11_PricedMatch ==
  \A k \in 1..Len(AllMatches) :
    LET m == AllMatches[k]
    IN m.buyIntent.hasStatedPrice =>
         /\ m.sourceListing.price < m.buyIntent.maxPrice
         /\ m.estimatedProfit =
              m.buyIntent.maxPrice - m.sourceListing.price - m.fees.total
         /\ m.estimatedProfit >= 1500

\* a returned list with a priced match, from a search that also found a
\* listing cheaper than the ceiling but short of the profit floor
C11_Witness ==
  /\ sourceResult # NoSource
  /\ lastListings # NoListings
  /\ \E j \in 1..Len(lastListings.found) : lastListings.found[j].price = 79000
  /\ \E k \in 1..Len(sourceResult.matched) :
       /\ sourceResult.matched[k].buyIntent.hasStatedPrice
       /\ sourceResult.matched[k].sourceListing.price = 60000

\* no two matches of `ms` for one posting share (marketplace, price rounded to
\* whole dollars)
NoSharedKey(ms) ==
  \A j \in 1..Len(ms), k \in 1..Len(ms) :
    (j # k /\ ms[j].buyIntent.postUrl = ms[k].buyIntent.postUrl) =>
      <<ms[j].sourceListing.marketplace, RoundDiv(ms[j].sourceListing.price, 100)>>
        # <<ms[k].sourceListing.marketplace, RoundDiv(ms[k].sourceListing.price, 100)>>

\* C12: in the match list of findSourcesForIntents no two matches of the same
\* intent share the key (sourceListing.marketplace, round(price / 100))
C12_NoDuplicateKey ==
  /\ NoSharedKey(matched)
  /\ sourceResult # NoSource => NoSharedKey(sourceResult.matched)

\* a returned list with an eBay and an Amazon match at 600 dollars for one
\* posting, the second eBay result at 600.49 dollars having collapsed
C12_Witness ==
  /\ sourceResult # NoSource
  /\ \E j \in 1..Len(sourceResult.matched), k \in 1..Len(sourceResult.matched) :
       /\ sourceResult.matched[j].buyIntent.postUrl =
            sourceResult.matched[k].buyIntent.postUrl
       /\ sourceResult.matched[j].sourceListing.marketplace = "eBay"
       /\ sourceResult.matched[j].sourceListing.price = 60000
       /\ sourceResult.matched[k].sourceListing.marketplace = "Amazon"
       /\ sourceResult.matched[k].sourceListing.price = 60000
  /\ \A k \in 1..Len(sourceResult.matched) :
       sourceResult.matched[k].sourceListing.price # 60049

\* extreme, negative and huge inputs of calculateConfidence
ExtremeIntents ==
  { Intent("x", maxPrice, "elsewhere", trades, age, 1) :
      maxPrice \in {0, 80000},
      trades \in {0 - 5, 0, 50, 1000000},
      age \in {0 - 3, 4, 24, 1000000} }

ExtremeListings ==
  { [title |-> "x", price |-> 500, url |-> [host |-> "x", listing |-> TRUE],
     marketplace |-> mp] : mp \in {"eBay", "Swappa", "Other"} }

ExtremeProfits == {0 - 10000000, 0, 1500, 10000000}

\* C13: the confidence stored in a match lies in [15, 95], on the priced path
\* and on the priceless path (the clamped score minus 10), for the matches of
\* every run and for extreme inputs of the score
C13_ConfidenceRange ==
  /\ \A k \in 1..Len(AllMatches) :
       AllMatches[k].confidence >= 15 /\ AllMatches[k].confidence <= 95
  /\ spc = "returned" =>
       \A intent \in ExtremeIntents, listing \in ExtremeListings,
          profit \in ExtremeProfits :
         LET stored == IF intent.hasStatedPrice
                       THEN CalculateConfidence(intent, listing, profit)
                       ELSE CalculateConfidence(intent, listing, profit) - 10
         IN stored >= 15 /\ stored <= 95

\* a returned list with a priced match at the upper clamp and a priceless one
C13_Witness ==
  /\ sourceResult # NoSource
  /\ \E k \in 1..Len(sourceResult.matched) :
       /\ sourceResult.matched[k].estimatedMarketPrice = Null
       /\ sourceResult.matched[k].confidence = 95
  /\ \E k \in 1..Len(sourceResult.matched) :
       /\ sourceResult.matched[k].estimatedMarketPrice # Null
       /\ sourceResult.matched[k].confidence = 62

\* the identifier of a harvested intent
IdOf(intent) == RedditPostNumericId(intent.postUrl)

Parseable(intent) == IdOf(intent) # 0 /\ IdOf(intent) # NaN

Returned(intent) ==
  \E k \in 1..Len(harvest.intents) : harvest.intents[k] = intent

\* C14: the freshness filter judges every posting of every query against the
\* largest identifier of the whole harvest: a posting is returned when its
\* distance to it is at most 100,000,000 and excluded when it is more
C14_FreshnessBoundary ==
  harvest # NoHarvest =>
    \A k \in 1..Len(allIntents) :
      (Parseable(allIntents[k])
         /\ \E j \in 1..Len(allIntents) : Parseable(allIntents[j])) =>
        LET maxId == CHOOSE m \in {IdOf(allIntents[j]) : j \in 1..Len(allIntents)} :
                       \A j \in 1..Len(allIntents) :
                         Parseable(allIntents[j]) => IdOf(allIntents[j]) <= m
        IN Returned(allIntents[k]) <=> (maxId - IdOf(allIntents[k]) <= 100000000)

\* two postings of the first query judged against the posting of the fourth:
\* the one at the window distance is returned, the one a unit beyond is not
C14_Witness ==
  /\ harvest # NoHarvest
  /\ Len(allIntents) = 3
  /\ IdOf(allIntents[1]) = BaseId
  /\ IdOf(allIntents[2]) = BaseId + 1
  /\ IdOf(allIntents[3]) = BaseId + 1 + 100000000
  /\ ~Returned(allIntents[1])
  /\ Returned(allIntents[2])
  /\ Returned(allIntents[3])

\* C15: no intent harvestBuyIntents returns has a post URL whose identifier
\* cannot be parsed
C15_UnparseableDiscarded ==
  harvest # NoHarvest =>
    \A k \in 1..Len(harvest.intents) : Parseable(harvest.intents[k])

\* the attempt that took `before` to `after` appended one diagnostic, and
\* it is an error diagnostic (itemCount 0, a message) iff the attempt failed
OneDiagnostic(before, after, failed) ==
  /\ Len(after) = Len(before) + 1
  /\ SubSeq(after, 1, Len(before)) = before
  /\ (after[Len(after)].status = "error") <=> failed
  /\ after[Len(after)].status = "error" =>
       after[Len(after)].itemCount = 0 /\ after[Len(after)].error # ""

\* C16: whatever searches fail, every venue query of the harvester and every
\* intent of the matcher's list is attempted once, in order, each attempt
\* appends one diagnostic, of status 'error' iff the attempt failed, and the
\* phase goes on to the next attempt or to its return
C16_FailureIsolation ==
  /\ [](hpc = "returned" =>
          /\ Len(hDiag) = Len(HARVEST_QUERIES)
          /\ \A i \in 1..Len(hDiag) : hDiag[i].source = HARVEST_QUERIES[i])
  /\ [](spc = "returned" =>
          /\ Len(sDiag) = Len(topIntents)
          /\ \A i \in 1..Len(sDiag) : sDiag[i].source[2] = topIntents[i].itemWanted)
  /\ [][hpc = "fetch" =>
          /\ hIdx = Len(hDiag) + 1
          /\ OneDiagnostic(hDiag, hDiag', faults' > faults)
          /\ hpc' = IF hIdx < Len(HARVEST_QUERIES) THEN "delay" ELSE "returned"
          /\ pc' = pc]_<<hpc, hDiag>>
  /\ [][spc = "fetch" =>
          /\ sIdx = Len(sDiag) + 1
          /\ OneDiagnostic(sDiag, sDiag', faults' > faults)
          /\ spc' = IF sIdx < Len(topIntents) THEN "delay" ELSE "returned"
          /\ pc' = pc]_<<spc, sDiag>>

\* a run whose first venue query failed, whose sixth found a posting, and
\* whose matcher went on to search it
C16_Witness ==
  /\ hpc = "returned"
  /\ hDiag[1].status = "error"
  /\ hDiag[6].status = "success"
  /\ spc = "returned"
  /\ Len(sDiag) = 1
  /\ sDiag[1].status # "error"

\* the shipping estimate of the venues of the priced intents searched
ShippingOf(source) ==
  CASE source = "r/hardwareswap" -> 1500
    [] source = "r/mechmarket" -> 1000
    [] OTHER -> 1500

\* C17: fees depend on the sell price and the venue only.  A call for one
\* intent with an 80000-cent ceiling whose search found a single listing, at
\* 60000 cents on a recognized marketplace, returns exactly one match, with
\* paypalFee = round(80000 * 0.0349) + 49 = 2841, shippingCost = the venue's
\* estimate (1500 for a venue outside the table), total = their sum and
\* estimatedProfit = 80000 - 60000 - total; and every match of an 80000-cent
\* intent carries that paypalFee and shippingCost whatever its listing costs
C17_FeesOnSellPrice ==
  /\ (/\ sourceResult # NoSource
      /\ Len(topIntents) = 1
      /\ topIntents[1].hasStatedPrice
      /\ topIntents[1].maxPrice = 80000
      /\ lastListings # NoListings
      /\ Len(lastListings.found) = 1
      /\ lastListings.found[1].price = 60000
      /\ lastListings.found[1].marketplace # "Other") =>
       /\ Len(sourceResult.matched) = 1
       /\ sourceResult.matched[1].sourceListing = lastListings.found[1]
       /\ sourceResult.matched[1].fees =
            [paypalFee |-> 2841,
             shippingCost |-> ShippingOf(topIntents[1].source),
             total |-> 2841 + ShippingOf(topIntents[1].source)]
       /\ sourceResult.matched[1].estimatedProfit =
            80000 - 60000 - (2841 + ShippingOf(topIntents[1].source))
  /\ \A k \in 1..Len(AllMatches) :
       (AllMatches[k].buyIntent.hasStatedPrice
          /\ AllMatches[k].buyIntent.maxPrice = 80000) =>
         /\ AllMatches[k].fees.paypalFee = 2841
         /\ AllMatches[k].fees.shippingCost = ShippingOf(AllMatches[k].buyIntent.source)

\* the one match of an r/mechmarket intent at 80000 and an eBay listing at
\* 60000: fees 2841 + 1000, profit 16159
C17_Witness ==
  /\ sourceResult # NoSource
  /\ Len(topIntents) = 1
  /\ topIntents[1].source = "r/mechmarket"
  /\ lastListings # NoListings
  /\ Len(lastListings.found) = 1
  /\ Len(sourceResult.matched) = 1
  /\ sourceResult.matched[1].sourceListing.price = 60000
  /\ sourceResult.matched[1].fees.total = 3841
  /\ sourceResult.matched[1].estimatedProfit = 16159

\* C18: when the search for an intent without a stated price returns fewer
\* than 2 listings, the matcher adds no match, appends one diagnostic, of
\* status 'empty', counts the call, and goes on to the delay before the next
\* intent (or returns after the last)
C18_TooFewListings ==
  [][(/\ spc = "fetch"
      /\ ~topIntents[sIdx].hasStatedPrice
      /\ lastListings' # NoListings
      /\ Len(lastListings'.found) < 2) =>
       /\ matched' = matched
       /\ Len(sDiag') = Len(sDiag) + 1
       /\ SubSeq(sDiag', 1, Len(sDiag)) = sDiag
       /\ sDiag'[Len(sDiag')].status = "empty"
       /\ sDiag'[Len(sDiag')].itemCount = Len(lastListings'.found)
       /\ sCalls' = sCalls + 1
       /\ spc' = IF sIdx < Len(topIntents) THEN "delay" ELSE "returned"
       /\ sIdx' = sIdx]_<<spc, sDiag>>

\* the search for a priceless first intent found one listing: no match, an
\* 'empty' diagnostic, the delay before the second intent
C18_Witness ==
  /\ spc = "delay"
  /\ sIdx = 1
  /\ ~topIntents[1].hasStatedPrice
  /\ lastListings # NoListings
  /\ Len(lastListings.found) = 1
  /\ matched = <<>>
  /\ Len(sDiag) = 1
  /\ sDiag[1].status = "empty"
  /\ sDiag[1].itemCount = 1

\* harvestBuyIntents run to its end at time t on the answers of the "replay"
\* web, from query i on
RECURSIVE ReplayHarvest(_, _, _, _)
ReplayHarvest(i, intents, seen, t) ==
  IF i > Len(HARVEST_QUERIES)
  THEN SortIntents(FilterByRedditId(intents))
  ELSE LET got == HarvestResults(ReplayResults(i), intents, seen, 0, t)
       IN ReplayHarvest(i + 1, got.intents, got.seen, t)

\* the matches findSourcesForIntents collects for these intents on the
\* "replay" web, before its sort
RECURSIVE ReplayMatch(_)
ReplayMatch(intents) ==
  IF intents = <<>> THEN <<>>
  ELSE MatchIntent(Head(intents),
                   SearchForItem(SearchWorld(Head(intents).itemWanted))).matches
       \o ReplayMatch(Tail(intents))

\* the match list of a run of the harvest and match phases that executes at
\* time t and gets the answers of the "replay" web
MatchesAt(t) ==
  SortMatches(ReplayMatch(Slice(FreshIntents(ReplayHarvest(1, <<>>, {}, t), {}),
                                MAX_INTENTS_TO_SEARCH)))

\* C19: a run that gets the same search answers as a run executed at
\* NowHours returns the same match list as that run, in the same order,
\* whenever it executes
C19_Idempotent ==
  sourceResult # NoSource => sourceResult.matched = MatchesAt(NowHours)

\* the match list of a run is the one computed for the time it executes at
C19_MatchesOfItsTime ==
  sourceResult # NoSource => sourceResult.matched = MatchesAt(now)

\* the later run: the matcher has returned the same listings at the same
\* profits as the earlier run, for a posting now past the freshness buckets
C19_Witness ==
  /\ now # NowHours
  /\ sourceResult # NoSource
  /\ Len(sourceResult.matched) = Len(MatchesAt(NowHours))
  /\ \E k \in 1..Len(sourceResult.matched) :
        LET m == sourceResult.matched[k]
            e == MatchesAt(NowHours)[k]
        IN /\ m.sourceListing = e.sourceListing
           /\ m.estimatedProfit = e.estimatedProfit
           /\ m.fees = e.fees
           /\ m.buyIntent.postAge > 24
           /\ e.buyIntent.postAge <= 4
           /\ m.confidence < e.confidence

\* C20: a run issues at most one request to the generative capability, and
\* exactly one once it is verifying; the request summarises the first
\* min(20, n) of the n matches of the matcher, one summary per match, and no
\* match left out has a strictly higher estimatedProfit than one included
C20_OneCappedRequest ==
  /\ Len(claudeCalls) <= 1
  /\ pc \in {"claude", "record"} => Len(claudeCalls) = 1
  /\ (pc = "done" /\ response # NoResponse) => Len(claudeCalls) = 1
  /\ claudeCalls # <<>> =>
       LET ms == sourceResult.matched
           n == Len(ms)
           k == IF n < 20 THEN n ELSE 20
           prompt == claudeCalls[1]
       IN /\ Len(prompt) = k
          /\ \A q \in 1..k : prompt[q] = MatchSummary(ms[q])
          /\ \A q \in 1..k : \A j \in (k + 1)..n :
                ms[j].estimatedProfit <= ms[q].estimatedProfit

\* a verified run whose matcher returned more than 20 matches: 20 are
\* summarised, and a match left out has a lower profit than each included
C20_Witness ==
  /\ pc = "done"
  /\ response # NoResponse
  /\ Len(claudeCalls) = 1
  /\ Len(sourceResult.matched) > 20
  /\ Len(claudeCalls[1]) = 20
  /\ \A q \in 1..20 :
        sourceResult.matched[Len(sourceResult.matched)].estimatedProfit
          < sourceResult.matched[q].estimatedProfit

\* the prices of the listings, ascending
PricesOf(found) == SortAscending([k \in 1..Len(found) |-> found[k].price])

\* p is the median of the prices: the middle one of an odd number, the mean
\* of the two middle ones of an even number
IsMedian(p, prices) ==
  LET n == Len(prices)
  IN IF n % 2 = 1 THEN p = prices[(n + 1) \div 2]
     ELSE 2 * p = prices[n \div 2] + prices[(n \div 2) + 1]

\* p is the upper of the middle prices
IsUpperMedian(p, prices) == p = prices[(Len(prices) \div 2) + 1]

\* the matches a step of the matcher has added
Added(before, after) == SubSeq(after, Len(before) + 1, Len(after))

\* what C21 asks of the matches m added by the search for an intent, given
\* the listings found, with Mid(p, prices) saying that p is the market price
MarketMatchRule(intent, found, ms, Mid(_, _)) ==
  \A k \in 1..Len(ms) :
    LET m == ms[k]
    IN IF intent.hasStatedPrice
       THEN m.estimatedMarketPrice = Null
       ELSE /\ m.estimatedMarketPrice # Null
            /\ Mid(m.estimatedMarketPrice, PricesOf(found))
            /\ m.sourceListing.price <= RoundDiv(m.estimatedMarketPrice * 75, 100)
            /\ m.fees.paypalFee = RoundDiv(m.estimatedMarketPrice * 349, 10000) + 49
            /\ m.fees.total = m.fees.paypalFee + m.fees.shippingCost
            /\ m.estimatedProfit
                 = m.estimatedMarketPrice - m.sourceListing.price - m.fees.total
            /\ m.estimatedProfit >= 1500

\* C21: every match of an intent without a stated price carries an
\* estimatedMarketPrice that is the median of the deduplicated listing prices
\* found for the intent, a listing priced at most round(0.75 x that price),
\* fees computed on that price and a profit of that price minus the listing
\* price minus the fees, at least 1500; a match of an intent with a stated
\* price carries no estimatedMarketPrice
C21_MarketPriceMatch ==
  [][(spc = "fetch" /\ lastListings' # NoListings) =>
       MarketMatchRule(topIntents[sIdx], lastListings'.found,
                       Added(matched, matched'), IsMedian)]_<<spc, sDiag>>

\* the same with the upper middle price in place of the median
C21_UpperMedianMatch ==
  [][(spc = "fetch" /\ lastListings' # NoListings) =>
       MarketMatchRule(topIntents[sIdx], lastListings'.found,
                       Added(matched, matched'), IsUpperMedian)]_<<spc, sDiag>>

\* a match of a priceless intent for which an even number of listings was
\* found, at a market price above the mean of the two middle prices
C21_Witness ==
  /\ sIdx = 1
  /\ spc \in {"delay", "returned"}
  /\ ~topIntents[1].hasStatedPrice
  /\ lastListings # NoListings
  /\ Len(lastListings.found) % 2 = 0
  /\ matched # <<>>
  /\ \A k \in 1..Len(matched) :
       /\ IsUpperMedian(matched[k].estimatedMarketPrice, PricesOf(lastListings.found))
       /\ ~IsMedian(matched[k].estimatedMarketPrice, PricesOf(lastListings.found))

\* the sell price of a match: the estimated market price of a priceless
\* intent, the stated price of a priced one
SellPriceOf(m) ==
  IF m.estimatedMarketPrice # Null THEN m.estimatedMarketPrice
  ELSE m.buyIntent.maxPrice

\* the margin increment for a profit as a percentage of a sell price
MarginBucket(profit, sellPrice) ==
  IF profit * 100 > 30 * sellPrice THEN 15
  ELSE IF profit * 100 > 20 * sellPrice THEN 10
  ELSE IF profit * 100 > 10 * sellPrice THEN 5 ELSE 0

\* the score C22 describes: the priced score for the match's margin bucket
\* (on its sell price), reputation, freshness and marketplace, and 20 less
\* for a match of a priceless intent
DescribedConfidence(m) ==
  LET i == m.buyIntent
      l == m.sourceListing
      sum == 45 + MarginBucket(m.estimatedProfit, SellPriceOf(m))
             + (IF i.buyerTradeCount >= 50 THEN 10
                ELSE IF i.buyerTradeCount >= 20 THEN 7
                ELSE IF i.buyerTradeCount >= 5 THEN 3 ELSE 0)
             + (IF i.postAge <= 4 THEN 10
                ELSE IF i.postAge <= 12 THEN 5
                ELSE IF i.postAge <= 24 THEN 2 ELSE 0)
             + (IF l.marketplace # "Other" THEN 5 ELSE 0)
             + (IF l.marketplace \in {"eBay", "Amazon"} THEN 5 ELSE 0)
             + 10
      priced == IF sum > 95 THEN 95 ELSE sum
  IN IF m.estimatedMarketPrice # Null THEN priced - 20 ELSE priced

\* C22: the confidence of every match is the score whose margin increment
\* is chosen from estimatedProfit as a percentage of the sell price
\* (maxPrice of a priced intent, the estimated market price of a priceless
\* one), and which for a priceless match is 20 below the priced score of
\* the same buckets
C22_MarginOfSellPrice ==
  \A k \in 1..Len(matched) : matched[k].confidence = DescribedConfidence(matched[k])

\* the priced half of C22: the matches of intents with a stated price
C22_PricedMargin ==
  \A k \in 1..Len(matched) :
    matched[k].estimatedMarketPrice = Null =>
      matched[k].confidence = DescribedConfidence(matched[k])

\* a priceless match whose profit is at most 30% of the market price and
\* which is scored with the increment of a margin above 30%
C22_Witness ==
  \E k \in 1..Len(matched) :
    LET m == matched[k]
    IN /\ m.estimatedMarketPrice # Null
       /\ MarginBucket(m.estimatedProfit, m.estimatedMarketPrice) = 10
       /\ MarginBucket(m.estimatedProfit, m.estimatedProfit + m.sourceListing.price) = 15
       /\ m.confidence = DescribedConfidence(m) + 5

\* C23: in each phase request k is in flight only after the k - 1 requests
\* before it have completed, failed or not, and after exactly k - 1 delays
\* of 250 ms; a delay is awaited only when another request follows, and by
\* the return of the phase one delay fewer than requests has elapsed
C23_OneDelayBetween ==
  /\ hpc = "fetch" => Len(hDiag) = hIdx - 1 /\ hWaited = 250 * (hIdx - 1)
  /\ hpc = "delay" =>
       /\ Len(hDiag) = hIdx
       /\ hIdx < Len(HARVEST_QUERIES)
       /\ hWaited = 250 * (hIdx - 1)
  /\ hpc = "returned" =>
       /\ Len(hDiag) = Len(HARVEST_QUERIES)
       /\ hWaited = 250 * (Len(HARVEST_QUERIES) - 1)
  /\ (pc = "source" /\ spc = "fetch") =>
       Len(sDiag) = sIdx - 1 /\ sWaited = 250 * (sIdx - 1)
  /\ (pc = "source" /\ spc = "delay") =>
       /\ Len(sDiag) = sIdx
       /\ sIdx < Len(topIntents)
       /\ sWaited = 250 * (sIdx - 1)
  /\ spc = "returned" =>
       /\ Len(sDiag) = Len(topIntents)
       /\ sWaited = 250 * (Len(topIntents) - 1)

\* the second source search is in flight one delay after the first, in a
\* run one of whose harvest queries failed and was followed by its delay
C23_Witness ==
  /\ hpc = "returned"
  /\ \E k \in 1..(Len(hDiag) - 1) : hDiag[k].status = "error"
  /\ hWaited = 1250
  /\ pc = "source"
  /\ spc = "fetch"
  /\ sIdx = 2
  /\ sWaited = 250

\* C24: the BuyIntent embedded in every match has hasStatedPrice exactly
\* when its maxPrice is above 0, and the intents handed to the matcher
\* keep that property too
C24_EmbeddedIntent ==
  /\ \A k \in 1..Len(matched) :
       matched[k].buyIntent.hasStatedPrice <=> matched[k].buyIntent.maxPrice > 0
  /\ \A k \in 1..Len(topIntents) :
       topIntents[k].hasStatedPrice <=> topIntents[k].maxPrice > 0

\* the intents handed to the matcher are left as they were: the embedded
\* copy of a priceless intent differs from it in maxPrice alone
C24_InputUnchanged ==
  /\ [][topIntents' = topIntents]_<<spc, sDiag>>
  /\ [](\A k \in 1..Len(matched) :
         \E j \in 1..Len(topIntents) :
           /\ topIntents[j].hasStatedPrice <=> topIntents[j].maxPrice > 0
           /\ matched[k].buyIntent
                = [topIntents[j] EXCEPT !.maxPrice = matched[k].buyIntent.maxPrice])

\* a match of a priceless intent: the embedded copy carries the estimated
\* market price as maxPrice and still says no price was stated
C24_Witness ==
  \E k \in 1..Len(matched) :
    /\ matched[k].estimatedMarketPrice # Null
    /\ matched[k].buyIntent.maxPrice = matched[k].estimatedMarketPrice
    /\ matched[k].buyIntent.maxPrice > 0
    /\ ~matched[k].buyIntent.hasStatedPrice

\* C25: once the promise of the run has settled, by any of its returns or
\* by a rejection, the deadline timer is no longer armed, and the progress
\* sink receives no further event
C25_TimerCancelled ==
  /\ [](pc = "done" => timer \in {"cleared", "fired"})
  /\ [](pc = "done" => ~ENABLED TimerFires)
  /\ [][pc = "done" => events' = events]_vars

\* a run ended by a caught exception before the deadline: its timer is
\* cleared and the error event is the last the sink got
C25_Witness ==
  /\ pc = "done"
  /\ raised # ""
  /\ returned.rejected = FALSE
  /\ timer = "cleared"
  /\ events[Len(events)] = ErrorEvent

\* the 'completed' and 'error' events of the run itself (the notice of the
\* deadline timer apart)
TerminalEvents == SelectSeq(events, LAMBDA e : e \in {CompletedEvent, ErrorEvent})

\* a run has returned a result and its progress sink has never thrown
ReturnedQuietly == pc = "done" /\ returned.rejected = FALSE /\ raised # SinkError

\* C26: a run that returns has delivered exactly one terminal event to the
\* sink: 'completed' when its result has success=true, 'error' when it has
\* success=false
C26_OneTerminalEvent ==
  ReturnedQuietly =>
    /\ Len(TerminalEvents) = 1
    /\ TerminalEvents[1] = IF returned.success THEN CompletedEvent ELSE ErrorEvent

\* the same for every return but the budget-denied abort
C26_ButForBudgetAbort ==
  (ReturnedQuietly /\ returned.abortReason = "") =>
    /\ Len(TerminalEvents) = 1
    /\ TerminalEvents[1] = IF returned.success THEN CompletedEvent ELSE ErrorEvent

\* a budget-denied abort: success=false and no terminal event delivered
C26_Witness ==
  /\ ReturnedQuietly
  /\ returned.success = FALSE
  /\ returned.abortReason # ""
  /\ TerminalEvents = <<>>

\* C27: the result of a run reports as intentsSearched the number of
\* intents the matcher issued a search for, and as searchedKeys the keys of
\* exactly those intents
C27_SearchBookkeeping ==
  (pc = "done" /\ returned.rejected = FALSE /\ returned.scoutStats # NoStats) =>
    /\ returned.scoutStats.intentsSearched = Len(sDiag)
    /\ spc = "returned" =>
         returned.searchedKeys
           = [k \in 1..Len(sDiag) |->
                <<topIntents[k].source, topIntents[k].buyerUsername,
                  NormItem(topIntents[k].itemWanted)>>]

\* a verified run whose matcher searched 15 intents and which reports 14
C27_Witness ==
  /\ pc = "done"
  /\ returned.rejected = FALSE
  /\ returned.success
  /\ Len(sDiag) = 15
  /\ sCalls = 15
  /\ returned.scoutStats.intentsSearched = 14
  /\ Len(returned.searchedKeys) = 14

\* C28: recordUsage is called at most once in a run, and exactly when the
\* generative call has returned a response, well-formed or not: after that
\* call, after a checkBudget that allowed it, with the token counts of the
\* response; never in a run that ends before the call or by its failure
C28_RecordUsageOnce ==
  /\ [](Len(recorded) <= 1)
  /\ [](recorded # <<>> <=> response # NoResponse)
  /\ [](recorded # <<>> =>
          /\ budget # NoBudget
          /\ budget.allowed
          /\ Len(claudeCalls) = 1
          /\ recorded[1].inputTokens = response.usage.input_tokens
          /\ recorded[1].outputTokens = response.usage.output_tokens)
  /\ []((pc = "done" /\ claudeCalls = <<>>) => recorded = <<>>)
  /\ [][recorded' # recorded =>
          /\ pc = "claude"
          /\ claudeCalls # <<>>
          /\ budget.allowed
          /\ response' # NoResponse
          /\ recorded' = Append(recorded, recorded'[Len(recorded')])]_vars

\* a verified run whose response was malformed: its usage was recorded
C28_Witness ==
  /\ pc = "done"
  /\ returned.rejected = FALSE
  /\ returned.success
  /\ response # NoResponse
  /\ response.content[1].text \in MalformedTexts
  /\ returned.opportunities = <<>>
  /\ Len(recorded) = 1
  /\ recorded[1].inputTokens = 1200
  /\ recorded[1].outputTokens = 300

\* source:buyerUsername:normalised item
KeyOf(intent) == <<intent.source, intent.buyerUsername, NormItem(intent.itemWanted)>>

\* every harvested intent is excluded
AllExcluded ==
  /\ harvest # NoHarvest
  /\ Len(harvest.intents) > 0
  /\ \A k \in 1..Len(harvest.intents) : KeyOf(harvest.intents[k]) \in excludeKeys

\* C29: no intent whose key is in excludeSearched is handed to the matcher
\* or is part of a match sent to verification; the searchedKeys returned
\* are disjoint from excludeSearched; and a run all of whose harvested
\* intents are excluded ends with success=true, no opportunity, no source
\* search, and intentsFound the number of harvested intents
C29_Exclusion ==
  /\ \A k \in 1..Len(topIntents) : KeyOf(topIntents[k]) \notin excludeKeys
  /\ \A k \in 1..Len(matched) : KeyOf(matched[k].buyIntent) \notin excludeKeys
  /\ (pc = "done" /\ returned.rejected = FALSE) =>
       \A k \in 1..Len(returned.searchedKeys) :
         returned.searchedKeys[k] \notin excludeKeys
  /\ (AllExcluded /\ pc # "harvest") => spc = "idle" /\ sCalls = 0
  /\ (AllExcluded /\ pc = "done" /\ raised = "") =>
       /\ returned.success
       /\ returned.opportunities = <<>>
       /\ returned.scoutStats.intentsFound = Len(harvest.intents)
       /\ returned.scoutStats.intentsSearched = 0
       /\ claudeCalls = <<>>

\* a run given the keys of both harvested intents: it ends after the
\* harvest, reporting two intents found and none searched
C29_Witness ==
  /\ AllExcluded
  /\ Len(harvest.intents) = 2
  /\ pc = "done"
  /\ raised = ""
  /\ returned.success
  /\ returned.scoutStats.intentsFound = 2
  /\ spc = "idle"

\* C30: the estimatedCost of every result counts the search calls the run
\* has made, harvest and source, and the tokens of its generative call
C30_CostCountsSearches ==
  (pc = "done" /\ returned.rejected = FALSE) =>
    returned.estimatedCost
      = Cost(EstimateCost(totalInputTokens, totalOutputTokens), hCalls + sCalls)

\* the same for the returns of the try block
C30_ButForCatch ==
  (pc = "done" /\ returned.rejected = FALSE /\ raised = "") =>
    returned.estimatedCost
      = Cost(EstimateCost(totalInputTokens, totalOutputTokens), hCalls + sCalls)

\* a failed run whose harvest and matcher had made search calls: its
\* estimatedCost counts none
C30_Witness ==
  /\ pc = "done"
  /\ returned.rejected = FALSE
  /\ raised # ""
  /\ hCalls = Len(HARVEST_QUERIES)
  /\ sCalls > 0
  /\ returned.estimatedCost.searchCalls = 0

====
